---- MODULE Spec2Model ----
(***************************************************************************)
(* Model of the SIP call clients of ravoxai:                               *)
(*   VoiceRTPSIPClient.make_voice_call_with_rtp   (src/rtp_voice_client.py) *)
(*   AuthenticatedSIPClient.make_authenticated_call (src/auth_sip_client.py)*)
(* together with the RTP streamer thread the first one starts.  A call is  *)
(* a blocking handler; its positions are the blocking receives.  The SIP   *)
(* server is the environment: it answers with any response of Responses,   *)
(* or with nothing (the receive times out).                                 *)
(* Three further specifications run parts of the first client on their    *)
(* own: SpecRtpFair one call whose threads keep running, SpecSdp the INVITE *)
(* builder and the SDP parser, SpecStream one RTPAudioStreamer.             *)
(***************************************************************************)
EXTENDS Integers, Sequences, FiniteSets, TLC

VARIABLES
  impl,       \* the client class whose call method runs
  pc,         \* the position of the call method
  cseq, branch, call_id, tag,   \* the client object's SIP identifiers
  sockOpen,   \* the signaling socket exists and is not closed
  sent,       \* history: the requests sent on the signaling socket, in order
  rcvd,       \* history: the datagrams received on it, in order
  last,       \* history: the last event of the call
  response_text,  \* the decoded response to the first INVITE
  elapsed,    \* time.time() - start_time of the wait loop, seconds
  answer,     \* the body of the 200 OK handed to parse_sdp_response
  streamer,   \* the RTPAudioStreamer's remote endpoint
  chunks,     \* number of 160-byte chunks of the encoded audio
  rtp,        \* history: the destinations of the RTP packets sent, in order
  streamRes,  \* what stream_audio_file returned
  outcome,    \* what the call method returned
  exit,       \* the source line of the return statement taken
  series,     \* the call is one of a series of calls
  prev,       \* how the call of the previous client object of the series ended
  before,     \* history: what the previous call through this client object sent
  bye,        \* history: <<n>> when a BYE arrived after n RTP packets, else <<>>
  \* create_invite_with_auth_and_sdp and parse_sdp_response on their own
  local_ip,   \* what get_local_ip returned
  rtp_port,   \* self.rtp_port
  message,    \* the text of the INVITE built, <<>> before
  parsed,     \* what parse_sdp_response made of message
  \* an RTPAudioStreamer on its own
  spc,        \* the position of stream_audio_file
  sequence_number, timestamp, ssrc,   \* the streamer's RTP counters
  rtp_socket, \* self.socket: "None", "open" or "closed"
  ulaw_len,   \* len(ulaw_audio)
  offset,     \* the loop variable i of stream_audio_file
  packets,    \* history: the packets handed to sendto, in order
  error,      \* history: what raised in stream_audio_file
  result,     \* what stream_audio_file returned
  clock,      \* milliseconds since the sending loop was entered
  send_times, \* history: the clock at each sendto
  \* two calls at the same time, by two client objects in one directory
  tpc,         \* where each of the two calls is
  temp_speech, \* the file temp_speech.wav: the call whose speech it holds
  loaded,      \* history: whose speech the streamer of each call loaded
  tres,        \* what each of the two calls returned
  \* RTPAudioStreamer.convert_to_ulaw on one sample
  pcm,         \* the 16-bit sample
  ulaw_byte,   \* <<b>> when the sample was encoded as the byte b, else <<>>
  upath,       \* which path of convert_to_ulaw encoded it
  \* agent_entry_point and the CallAgent objects it creates
  aversion,       \* which call_agent.py runs
  epc,            \* where agent_entry_point is
  retry_count,    \* retry_count of agent_entry_point
  agent_instance, \* the number of the CallAgent created last, 0 for None
  cleaned,        \* history: the CallAgent objects whose cleanup() was run
  records,        \* the call_record of each CallAgent
  events,         \* how many participant events were delivered
  utcnow,         \* datetime.utcnow(), a tick per reading
  \* the call context from make_sip_call to CallAgent
  request,        \* the arguments of make_sip_call
  room_metadata,  \* the metadata of the room, <<>> before the room exists
  entered,        \* the fields on_enter extracted
  call_info,      \* the fields _create_call_record extracted
  \* the call service of main.py: one request, its record, the task runner
  now,            \* datetime.utcnow(), in minutes
  rpc,            \* where the handler of POST /make-call is
  phone_number,   \* the phone_number of the request
  http,           \* the status code of the response, "none" before it
  sip,            \* history: what make_sip_call did, "none" before it
  db_record,      \* the CallRecord of the request
  since           \* history: when the status of the record was last set

callVars == <<impl, pc, cseq, branch, call_id, tag, sockOpen, sent, rcvd, last,
              response_text, elapsed, answer, streamer, chunks, rtp, streamRes, outcome,
              exit, series, prev, before, bye>>
callVarsButBye == <<impl, pc, cseq, branch, call_id, tag, sockOpen, sent, rcvd, last,
                    response_text, elapsed, answer, streamer, chunks, rtp, streamRes,
                    outcome, exit, series, prev, before>>
sdpVars == <<local_ip, rtp_port, message, parsed>>
stmVars == <<spc, sequence_number, timestamp, ssrc, rtp_socket, ulaw_len, offset, packets,
             error, result, clock, send_times>>
twoVars == <<tpc, temp_speech, loaded, tres>>
ulawVars == <<pcm, ulaw_byte, upath>>
agentVars == <<aversion, epc, retry_count, agent_instance, cleaned, records, events, utcnow>>
metaVars == <<request, room_metadata, entered, call_info>>
svcVars == <<now, rpc, phone_number, http, sip, db_record, since>>
moreVars == <<ulawVars, agentVars, metaVars, svcVars>>
unitVars == <<sdpVars, stmVars, twoVars, moreVars>>
vars == <<callVars, sdpVars, stmVars, twoVars, moreVars>>

-----------------------------------------------------------------------------
(* Bounds of the model *)

\* datagrams the server sends within one call
MaxResponses == 3
\* 160-byte chunks in the encoded audio of one call
MaxChunks == 2
\* the same two bounds for each call of a series of calls
SeriesResponses == 2
SeriesChunks == 1
\* the minutes the clock of the call service runs
MaxTime == 7
\* the longest text of a field of the call context, in characters
MaxLen == 2
\* the participant events delivered to the agents of one job
MaxEvents == 3
\* the largest CSeq at which a client object is used for one more call
MaxCSeq == 2
\* packets one run of stream_audio_file hands to its socket
MaxPackets == 4

(* Program constants *)

\* sock.settimeout(30) of make_voice_call_with_rtp, seconds
SockTimeout == 30
\* max_wait_time of make_voice_call_with_rtp, seconds
MaxWaitTime == 45
\* self.cseq = 1 in both constructors
InitialCSeq == 1
\* chunk_size of stream_audio_file, bytes
chunk_size == 160
\* the modulus of the RTP sequence number in create_rtp_packet
SeqModulus == 65536
\* max_retries of agent_entry_point
max_retries == 2
\* timedelta(minutes=5) of update_call_statuses
ConnectingMinutes == 5
\* timedelta(minutes=2) of update_call_statuses
InitiatedMinutes == 2
\* time.sleep(0.02), in milliseconds
PacketTime == 20

\* seconds a datagram that does arrive takes to arrive (less than SockTimeout)
Delays == {0, 15}

RtpClient == "VoiceRTPSIPClient"
AuthClient == "AuthenticatedSIPClient"
Impls == {RtpClient, AuthClient}

\* random.randint(1000000, 9999999) behind "z9hG4bK", two representatives
Branches == {"z9hG4bK1000000", "z9hG4bK9999999"}
CallIds == {"1000000@host"}
Tags == {"tag1000"}
\* cnonce = random.randint(100000, 999999), two representatives
CNonces == {"100000", "999999"}

Username == "1001"
Password == "tt55oo77"
Uri == "sip:0796026659@192.168.1.187"

-----------------------------------------------------------------------------
(* Server responses *)

S100 == "100 Trying"
S180 == "180 Ringing"
S183 == "183 Session Progress"
S200 == "200 OK"
S401 == "401 Unauthorized"
S407 == "407 Proxy Authentication Required"
S486 == "486 Busy"
S404 == "404 Not Found"
S603 == "603 Decline"
S408 == "408 Request Timeout"
S500 == "500 Server Internal Error"

Provisional == {S100, S180, S183}
Challenge == {S401, S407}
Rejection == {S486, S404, S603, S408}
Statuses == Provisional \cup Challenge \cup Rejection \cup {S200, S500}

\* a key that the regular expressions of parse_auth_header did not find
Absent == "<absent>"

\* the value of a challenge header: the text after "Name:", stripped
ChallengeValues ==
  { [text |-> "Digest", realm |-> "test", nonce |-> "abc123", opaque |-> Absent,
     algorithm |-> Absent, qop |-> Absent],
    [text |-> "Digest", realm |-> "test", nonce |-> "def456", opaque |-> "op1",
     algorithm |-> "MD5", qop |-> "auth"],
    [text |-> "Digest", realm |-> Absent, nonce |-> Absent, opaque |-> Absent,
     algorithm |-> Absent, qop |-> Absent],
    [text |-> "Digest", realm |-> "test", nonce |-> "ghi789", opaque |-> Absent,
     algorithm |-> "MD5-sess", qop |-> Absent],
    [text |-> "Digest", realm |-> "test", nonce |-> Absent, opaque |-> Absent,
     algorithm |-> Absent, qop |-> Absent],
    [text |-> "", realm |-> Absent, nonce |-> Absent, opaque |-> Absent,
     algorithm |-> Absent, qop |-> Absent] }

NoValue == [text |-> "", realm |-> Absent, nonce |-> Absent, opaque |-> Absent,
            algorithm |-> Absent, qop |-> Absent]
NoHeader == [name |-> "none", value |-> NoValue]
ChallengeHeaders == [name : {"WWW-Authenticate", "Proxy-Authenticate"},
                     value : ChallengeValues]

\* SDP lines, each the list of its space-separated parts
C1Line == <<"c=IN", "IP4", "10.0.0.5">>
C2Line == <<"c=IN", "IP4", "10.0.0.9">>
\* a connection line whose address is no IPv4 address
CNameLine == <<"c=IN", "IP4", "pbx.example">>
M1Line == <<"m=audio", "30000", "RTP/AVP", "0">>
M2Line == <<"m=audio", "40000", "RTP/AVP", "0">>
MBadLine == <<"m=audio", "abc", "RTP/AVP", "0">>
MZeroLine == <<"m=audio", "0", "RTP/AVP", "0">>
VLine == <<"v=0">>

\* the part of a response after the first blank line (sep: there is one)
NoBody == [sep |-> FALSE, lines |-> <<>>]
Bodies ==
  { [sep |-> TRUE, lines |-> ls] :
      ls \in { <<VLine, C1Line, M1Line>>, <<VLine, C2Line, M2Line>>,
               <<C1Line, M1Line, C2Line>>, <<M2Line, C1Line, M1Line>>,
               <<VLine, C1Line>>, <<VLine, M1Line>>,
               <<C1Line, MBadLine>>, <<C1Line, MZeroLine>>, <<CNameLine, M1Line>>,
               <<>> } }
  \cup {NoBody}

Responses ==
  { [status |-> s, hdr |-> NoHeader, body |-> NoBody, decodable |-> TRUE] :
      s \in Provisional \cup Rejection \cup {S500} }
  \cup { [status |-> s, hdr |-> h, body |-> NoBody, decodable |-> TRUE] :
      s \in Challenge, h \in ChallengeHeaders \cup {NoHeader} }
  \cup { [status |-> S200, hdr |-> NoHeader, body |-> b, decodable |-> TRUE] :
      b \in Bodies }
  \cup { [status |-> S183, hdr |-> NoHeader,
          body |-> [sep |-> TRUE, lines |-> <<VLine, C1Line, M1Line>>],
          decodable |-> TRUE] }
  \cup { [status |-> S500, hdr |-> NoHeader, body |-> NoBody, decodable |-> FALSE] }

\* nothing received yet
NoResponse == [status |-> "none", hdr |-> NoHeader, body |-> NoBody, decodable |-> TRUE]

\* `phrase in response_text`
Has(r, phrase) == r.status = phrase

-----------------------------------------------------------------------------
(* Digest authentication *)

NoneVal == "None"

\* parse_auth_header: the keys whose pattern matched; the others stay Absent
parse_auth_header(auth_header) ==
  [realm |-> auth_header.realm, nonce |-> auth_header.nonce,
   opaque |-> auth_header.opaque, algorithm |-> auth_header.algorithm,
   qop |-> auth_header.qop]

\* auth_info.get(key, '')
Get(auth_info, key) == IF auth_info[key] = Absent THEN "" ELSE auth_info[key]

\* truth value of the dict auth_info: it has at least one key
NonEmpty(auth_info) ==
  \E k \in {"realm", "nonce", "opaque", "algorithm", "qop"} : auth_info[k] # Absent

\* hashlib.md5(x).hexdigest(), uninterpreted and injective
MD5(x) == [md5 |-> x]

\* mutant: the qop of the challenge is ignored
calculate_digest_response_IgnoresQop(auth_info, method, uri, cn) ==
  LET ha1 == MD5(<<Username, Get(auth_info, "realm"), Password>>)
      ha2 == MD5(<<method, uri>>)
  IN [response |-> MD5(<<ha1, Get(auth_info, "nonce"), ha2>>),
      nc |-> NoneVal, cnonce |-> NoneVal]

\* calculate_digest_response; cn is the random client nonce drawn when qop is set
calculate_digest_response(auth_info, method, uri, cn) ==
  LET realm == Get(auth_info, "realm")
      nonce == Get(auth_info, "nonce")
      qop == Get(auth_info, "qop")
      ha1 == MD5(<<Username, realm, Password>>)
      ha2 == MD5(<<method, uri>>)
  IN IF qop # ""
     THEN [response |-> MD5(<<ha1, nonce, "00000001", cn, qop, ha2>>),
           nc |-> "00000001", cnonce |-> cn]
     ELSE [response |-> MD5(<<ha1, nonce, ha2>>), nc |-> NoneVal, cnonce |-> NoneVal]

\* no Authorization header in the request
NoAuth == [present |-> FALSE, username |-> "", realm |-> "", nonce |-> "", uri |-> "",
           response |-> MD5(<<>>), opaque |-> Absent, qop |-> Absent,
           nc |-> Absent, cnonce |-> Absent]

\* the Authorization header create_invite_with_auth[_and_sdp] builds from auth_info
AuthorizationHeader(auth_info, cn) ==
  LET d == calculate_digest_response(auth_info, "INVITE", Uri, cn)
      withQop == Get(auth_info, "qop") # "" /\ d.nc # NoneVal /\ d.cnonce # NoneVal
  IN [present |-> TRUE, username |-> Username,
      realm |-> Get(auth_info, "realm"), nonce |-> Get(auth_info, "nonce"),
      uri |-> Uri, response |-> d.response,
      opaque |-> IF Get(auth_info, "opaque") # "" THEN auth_info.opaque ELSE Absent,
      qop |-> IF withQop THEN auth_info.qop ELSE Absent,
      nc |-> IF withQop THEN d.nc ELSE Absent,
      cnonce |-> IF withQop THEN d.cnonce ELSE Absent]

\* `if auth_info:` of create_invite_with_auth[_and_sdp]: the header is added
\* only for a non-empty dict
InviteAuth(auth_info, cn) ==
  IF NonEmpty(auth_info) THEN AuthorizationHeader(auth_info, cn) ELSE NoAuth

NoAuthInfo == [realm |-> Absent, nonce |-> Absent, opaque |-> Absent,
               algorithm |-> Absent, qop |-> Absent]

-----------------------------------------------------------------------------
(* SIP requests *)

\* create_invite_with_auth_and_sdp: the INVITE carries the SDP offer
create_invite_with_auth_and_sdp(cs, br, auth_info, cn) ==
  [method |-> "INVITE", uri |-> Uri, cseq |-> cs, branch |-> br,
   call_id |-> call_id, tag |-> tag, auth |-> InviteAuth(auth_info, cn),
   body |-> "sdp_body", clen |-> "len(sdp_body)"]

\* create_invite_with_auth: Content-Length 0, no body
create_invite_with_auth(cs, br, auth_info, cn) ==
  [method |-> "INVITE", uri |-> Uri, cseq |-> cs, branch |-> br,
   call_id |-> call_id, tag |-> tag, auth |-> InviteAuth(auth_info, cn),
   body |-> "", clen |-> "0"]

\* mutant: the ACK takes the next CSeq number
create_ack_message_NextCSeq(cs, br) ==
  [method |-> "ACK", uri |-> Uri, cseq |-> cs + 1, branch |-> br,
   call_id |-> call_id, tag |-> tag, auth |-> NoAuth,
   body |-> "", clen |-> "0"]

\* mutant: the ACK is built with a From tag of its own
create_ack_message_OwnTag(cs, br) ==
  [method |-> "ACK", uri |-> Uri, cseq |-> cs, branch |-> br,
   call_id |-> call_id, tag |-> "tag9999", auth |-> NoAuth,
   body |-> "", clen |-> "0"]

\* create_ack_message
create_ack_message(cs, br) ==
  [method |-> "ACK", uri |-> Uri, cseq |-> cs, branch |-> br,
   call_id |-> call_id, tag |-> tag, auth |-> NoAuth,
   body |-> "", clen |-> "0"]

-----------------------------------------------------------------------------
(* SDP answer *)

\* int(parts[1]) on the tokens that are decimal numbers; it raises on the others
IntOf == ("30000" :> 30000) @@ ("40000" :> 40000) @@ ("0" :> 0)
         @@ ("10000" :> 10000) @@ ("15000" :> 15000) @@ ("20000" :> 20000)

\* remote_port = None
NoPort == -1

\* line.startswith('c=IN IP4 ')
IsConnectionLine(line) == Len(line) >= 3 /\ line[1] = "c=IN" /\ line[2] = "IP4"
\* line.startswith('m=audio ')
IsAudioLine(line) == Len(line) >= 2 /\ line[1] = "m=audio"

NoEndpoint == [ip |-> NoneVal, port |-> NoPort]

\* mutant: the address is taken from the wrong part of the connection line
RECURSIVE ScanSdp_WrongPart(_, _, _)
ScanSdp_WrongPart(lines, i, acc) ==
  IF i > Len(lines) THEN acc
  ELSE LET line == lines[i] IN
       IF IsConnectionLine(line)
       THEN ScanSdp_WrongPart(lines, i + 1, [acc EXCEPT !.ip = line[2]])
       ELSE IF IsAudioLine(line)
       THEN IF line[2] \in DOMAIN IntOf
            THEN ScanSdp_WrongPart(lines, i + 1, [acc EXCEPT !.port = IntOf[line[2]]])
            ELSE NoEndpoint
       ELSE ScanSdp_WrongPart(lines, i + 1, acc)

\* the loop of parse_sdp_response over the lines from line i on; a later line
\* overwrites an earlier one, and a port that is no number raises, which the
\* except clause turns into (None, None)
RECURSIVE ScanSdp(_, _, _)
ScanSdp(lines, i, acc) ==
  IF i > Len(lines) THEN acc
  ELSE LET line == lines[i] IN
       IF IsConnectionLine(line)
       THEN ScanSdp(lines, i + 1, [acc EXCEPT !.ip = line[3]])
       ELSE IF IsAudioLine(line)
       THEN IF line[2] \in DOMAIN IntOf
            THEN ScanSdp(lines, i + 1, [acc EXCEPT !.port = IntOf[line[2]]])
            ELSE NoEndpoint
       ELSE ScanSdp(lines, i + 1, acc)

parse_sdp_response(r) ==
  IF ~r.body.sep THEN NoEndpoint ELSE ScanSdp(r.body.lines, 1, NoEndpoint)

\* mutant: the caller tests the address only
Usable_AddressOnly(ep) == ep.ip # NoneVal /\ ep.ip # ""

\* `if remote_ip and remote_port:`
Usable(ep) == ep.ip # NoneVal /\ ep.ip # "" /\ ep.port # NoPort /\ ep.port # 0

-----------------------------------------------------------------------------
(* SIP messages as text: a text is a sequence of pieces, each the list of   *)
(* the space-separated parts of a stretch without line break, and the line *)
(* break that ends it: "\r\n", "\n", or "" for the last piece              *)

CRLF == "\r\n"
LF == "\n"

\* a text without line break
Line(parts) == << [text |-> parts, end |-> ""] >>
\* the text t followed by the line break e
Ended(t, e) == [t EXCEPT ![Len(t)].end = e]

\* "\r\n".join(texts)
RECURSIVE JoinCRLF(_)
JoinCRLF(texts) ==
  IF Len(texts) = 1 THEN texts[1]
  ELSE Ended(texts[1], CRLF) \o JoinCRLF(Tail(texts))

\* the lines of a triple-quoted literal of the source file: each ends in "\n"
RECURSIVE Literal(_)
Literal(lines) ==
  IF lines = <<>> THEN Line(<<"">>)
  ELSE Ended(Line(lines[1]), LF) \o Literal(Tail(lines))

\* f"{self.cseq}"
StrOfCSeq(n) == IF n = 1 THEN "1" ELSE "2"

\* f"{n}" of a port number
StrOf(n) == CHOOSE t \in DOMAIN IntOf : IntOf[t] = n

\* create_sdp_body, lines 247-257
create_sdp_body(ip, port, sid, ver) ==
  Literal(<< <<"v=0">>,
             <<"o=-", sid, ver, "IN", "IP4", ip>>,
             <<"s=-">>,
             <<"c=IN", "IP4", ip>>,
             <<"t=0", "0">>,
             <<"m=audio", StrOf(port), "RTP/AVP", "0", "8">>,
             <<"a=rtpmap:0", "PCMU/8000">>,
             <<"a=rtpmap:8", "PCMA/8000">>,
             <<"a=sendrecv">>,
             <<"a=ptime:20">> >>)

\* lines 310-340: the headers of the request req, an empty line and the body,
\* joined by "\r\n"
InviteMessage(req, ip, sdp_body) ==
  JoinCRLF(
    << Line(<<"INVITE", req.uri, "SIP/2.0">>),
       Line(<<"Via:", "SIP/2.0/UDP", ip, req.branch>>),
       Line(<<"Max-Forwards:", "70">>),
       Line(<<"From:", Username, req.tag>>),
       Line(<<"To:", req.uri>>),
       Line(<<"Contact:", Username, ip>>),
       Line(<<"Call-ID:", req.call_id>>),
       Line(<<"CSeq:", StrOfCSeq(req.cseq), "INVITE">>) >>
    \o (IF req.auth.present
        THEN << Line(<<"Authorization:", "Digest", req.auth.realm, req.auth.nonce>>) >>
        ELSE << >>)
    \o << Line(<<"Content-Type:", "application/sdp">>),
          Line(<<"Content-Length:", req.clen>>),
          Line(<<"">>),
          sdp_body >>)

\* response_text.find('\r\n\r\n'): the piece that ends in the first "\r\n"
\* directly followed by another, 0 when there is none
FindBlankLine(t) ==
  LET hits == {k \in 1..(Len(t) - 1) :
                 t[k].end = CRLF /\ t[k + 1].text = <<"">> /\ t[k + 1].end = CRLF}
  IN IF hits = {} THEN 0 ELSE CHOOSE k \in hits : \A j \in hits : k <= j

\* the pieces of one line of split('\r\n') seen as one string split at the
\* spaces: a "\n" stays inside the part it stands in
RECURSIVE JoinLF(_)
JoinLF(run) ==
  IF Len(run) = 1 THEN run[1].text
  ELSE LET f == run[1].text
           rest == JoinLF(Tail(run))
       IN SubSeq(f, 1, Len(f) - 1) \o << f[Len(f)] \o LF \o rest[1] >> \o Tail(rest)

\* sdp_body.split('\r\n')
RECURSIVE SplitCRLF(_)
SplitCRLF(t) ==
  LET ends == {k \in 1..Len(t) : t[k].end = CRLF}
      k == IF ends = {} THEN Len(t) ELSE CHOOSE e \in ends : \A j \in ends : e <= j
  IN IF k = Len(t) THEN << JoinLF(t) >>
     ELSE << JoinLF(SubSeq(t, 1, k)) >> \o SplitCRLF(SubSeq(t, k + 1, Len(t)))

\* lines 347-356: the body of the text t and its lines
BodyOf(t) ==
  LET k == FindBlankLine(t) IN
  IF k = 0 THEN NoBody
  ELSE [sep |-> TRUE, lines |-> SplitCRLF(SubSeq(t, k + 2, Len(t)))]

\* a text as parse_sdp_response receives it
TextResponse(t) == [status |-> "none", hdr |-> NoHeader, body |-> BodyOf(t), decodable |-> TRUE]

-----------------------------------------------------------------------------
(* State *)

NoStreamer == [remote_ip |-> NoneVal, remote_port |-> NoPort]
\* no call was made before through this client object, or none that sent
NoBefore == [call_id |-> "none", tag |-> "none", nonce |-> "none"]
NoPrev == [reason |-> "none", outcome |-> "pending"]

ResponseLimit == IF series THEN SeriesResponses ELSE MaxResponses
ChunkLimit == IF series THEN SeriesChunks ELSE MaxChunks

Acked == \E i \in 1..Len(sent) : sent[i].method = "ACK"

\* a client object as its constructor leaves it, before any call
Fresh ==
  /\ pc = "Idle"
  /\ cseq = InitialCSeq
  /\ branch \in Branches
  /\ call_id \in CallIds
  /\ tag \in Tags
  /\ sockOpen = FALSE
  /\ sent = <<>>
  /\ rcvd = <<>>
  /\ last = "none"
  /\ response_text = NoResponse
  /\ elapsed = 0
  /\ answer = NoBody
  /\ streamer = NoStreamer
  /\ chunks = 0
  /\ rtp = <<>>
  /\ streamRes = "none"
  /\ outcome = "pending"
  /\ exit = "none"
  /\ prev = NoPrev
  /\ before = NoBefore
  /\ bye = <<>>

\* parse_sdp_response was not called
Unparsed == [ip |-> "unparsed", port |-> NoPort]

\* no message is built or parsed outside a call
SdpIdle ==
  /\ local_ip = ""
  /\ rtp_port = IntOf["0"]
  /\ message = <<>>
  /\ parsed = Unparsed

\* no RTPAudioStreamer is run outside a call
StmIdle ==
  /\ spc = "Idle"
  /\ sequence_number = IntOf["0"]
  /\ timestamp = [hi |-> 0, lo |-> 0]
  /\ ssrc = [hi |-> 0, lo |-> 0]
  /\ rtp_socket = "None"
  /\ ulaw_len = IntOf["0"]
  /\ offset = IntOf["0"]
  /\ packets = <<>>
  /\ error = "none"
  /\ result = "none"
  /\ clock = IntOf["0"]
  /\ send_times = <<>>

\* the two client objects of the concurrent calls
Calls == {"call1", "call2"}

\* no second call runs at the same time
TwoIdle ==
  /\ tpc = [c \in Calls |-> "Idle"]
  /\ temp_speech = "absent"
  /\ loaded = [c \in Calls |-> "none"]
  /\ tres = [c \in Calls |-> "pending"]

\* convert_to_ulaw is not run outside a streamer
UlawIdle ==
  /\ pcm = IntOf["0"]
  /\ ulaw_byte = <<>>
  /\ upath = "none"

\* call_record = None
NoRecord == [status |-> "none", ended_at |-> IntOf["0"]]

\* the CallAgent objects one run of agent_entry_point can create
Instances == 1..(max_retries + 1)

\* no agent runs
AgentIdle ==
  /\ aversion = "none"
  /\ epc = "Idle"
  /\ retry_count = 0
  /\ agent_instance = 0
  /\ cleaned = {}
  /\ records = [i \in Instances |-> NoRecord]
  /\ events = 0
  /\ utcnow = 1

\* nothing extracted yet
NoFields == [subject |-> <<"?">>, caller_name |-> <<"?">>, company_name |-> <<"?">>,
             agent_name |-> <<"?">>, main_prompt |-> <<"?">>]

\* no call context is handed over
MetaIdle ==
  /\ request = NoFields
  /\ room_metadata = <<>>
  /\ entered = NoFields
  /\ call_info = NoFields

\* a DateTime column that is NULL
NoTime == -1

\* no CallRecord in the table
NoCall == [status |-> "none", created_at |-> NoTime, started_at |-> NoTime,
           ended_at |-> NoTime]

\* the call service does not run
SvcIdle ==
  /\ now = 0
  /\ rpc = "Off"
  /\ phone_number = <<>>
  /\ http = "none"
  /\ sip = "none"
  /\ db_record = NoCall
  /\ since = NoTime

MoreIdle == UlawIdle /\ AgentIdle /\ MetaIdle /\ SvcIdle

\* one call, by either client
Init == Fresh /\ impl \in Impls /\ series = FALSE /\ SdpIdle /\ StmIdle /\ TwoIdle /\ MoreIdle

\* mutant: no finally clause, the socket stays open
Return_SocketLeft(value, where) ==
  /\ pc' = "Done"
  /\ outcome' = value
  /\ exit' = where
  /\ sockOpen' = sockOpen

\* `return value` at the place `where`; the finally clause closes the socket
Return(value, where) ==
  /\ pc' = "Done"
  /\ outcome' = value
  /\ exit' = where
  /\ sockOpen' = FALSE

\* an exception leaves the call at the place `where`; no socket is open
Raise(exception, where) ==
  /\ pc' = "Done"
  /\ outcome' = exception
  /\ exit' = where
  /\ sockOpen' = FALSE

\* what recvfrom(...).decode() leaves in the history of the call
Event(r) == IF r.decodable THEN r.status ELSE "undecodable"

-----------------------------------------------------------------------------------------------------------------------------------------------------
(* VoiceRTPSIPClient.make_voice_call_with_rtp *)

\* lines 401-411 and 495-496: what the response to the first INVITE leads to;
\* "retry" is the authenticated INVITE, anything else the line of a return
RtpFirstBranch(r) ==
  IF Has(r, S401)
  THEN IF r.hdr.name = "WWW-Authenticate" /\ r.hdr.value.text # ""
       THEN "retry" ELSE "L496"
  ELSE "L496"

\* mutant: the nonce of the challenge of the previous call is used again
RtpChallengeValue_Stored(r) ==
  [r.hdr.value EXCEPT !.nonce = IF before.nonce = "none" THEN @ ELSE before.nonce]

\* lines 405-409: the value of the first WWW-Authenticate header
RtpChallengeValue(r) == r.hdr.value

\* mutant: the call handles the response to the authenticated INVITE as it
\* handled the first response, challenge included
RtpAfterRetry_Again == "AwaitFirst"

\* lines 422-427: where the call waits after the authenticated INVITE
RtpAfterRetry == "AwaitAnswer"

\* mutant: a 183 Session Progress (early media) is taken for the answer
RtpLoopBranch_EarlyMedia(r) ==
  IF Has(r, S183) \/ Has(r, S200) THEN "answered"
  ELSE IF Has(r, S100) \/ Has(r, S180) THEN "progress"
  ELSE IF Has(r, S486) \/ Has(r, S404) THEN "L475"
  ELSE IF Has(r, S603) THEN "L478"
  ELSE IF Has(r, S408) THEN "L481"
  ELSE "ignored"

\* lines 434-481: the branch of the if/elif chain of the wait loop that a
\* response takes; "ignored" when no branch matches
RtpLoopBranch(r) ==
  IF Has(r, S100) \/ Has(r, S180) \/ Has(r, S183) THEN "progress"
  ELSE IF Has(r, S200) THEN "answered"
  ELSE IF Has(r, S486) \/ Has(r, S404) THEN "L475"
  ELSE IF Has(r, S603) THEN "L478"
  ELSE IF Has(r, S408) THEN "L481"
  ELSE "ignored"

\* mutant: the function ends after the wait loop without a return statement
RtpReturnValue_FallsOffEnd(line) ==
  IF line = "L469" THEN "True" ELSE IF line = "L494" THEN "None" ELSE "False"

\* mutant: the except clause of line 498 reports success
RtpReturnValue_ErrorsSucceed(line) ==
  IF line \in {"L469", "L500"} THEN "True" ELSE "False"

\* the value of the return statement at a line of make_voice_call_with_rtp
RtpReturnValue(line) == IF line = "L469" THEN "True" ELSE "False"

\* mutant: the wait loop measures no time, as if start_time were taken anew
\* in every iteration
Elapsed_ClockStopped(e, d) == e

\* line 427: time.time() - start_time, d seconds after it was e
Elapsed(e, d) == e + d

\* lines 375-394: speech generation, socket set-up and the first INVITE
RtpPlaceCall ==
  /\ impl = RtpClient /\ pc = "Idle"
  /\ \/ /\ last' = "no audio"
        /\ Return(RtpReturnValue("L380"), "L380")
        /\ sent' = sent
     \/ /\ last' = "socket error"
        /\ Return(RtpReturnValue("L500"), "L500")
        /\ sent' = sent
     \/ /\ sent' = Append(sent, create_invite_with_auth_and_sdp(cseq, branch, NoAuthInfo, NoneVal))
        /\ sockOpen' = TRUE
        /\ pc' = "AwaitFirst"
        /\ UNCHANGED <<last, outcome, exit>>
  /\ UNCHANGED <<unitVars, bye, before, impl, cseq, branch, call_id, tag, rcvd, response_text, elapsed, answer,
                 streamer, chunks, rtp, streamRes, series, prev>>

\* lines 396-420 and 495-500: the response to the first INVITE
RtpFirstResponse ==
  /\ impl = RtpClient /\ pc = "AwaitFirst"
  /\ \/ /\ last' = "timeout"
        /\ Return(RtpReturnValue("L500"), "L500")
        /\ UNCHANGED <<cseq, branch, sent, rcvd, response_text, elapsed>>
     \/ \E r \in Responses :
          /\ Len(rcvd) < ResponseLimit
          /\ rcvd' = Append(rcvd, Event(r))
          /\ last' = Event(r)
          /\ IF ~r.decodable
             THEN /\ Return(RtpReturnValue("L500"), "L500")
                  /\ UNCHANGED <<cseq, branch, sent, response_text, elapsed>>
             ELSE /\ response_text' = r
                  /\ IF RtpFirstBranch(r) = "retry"
                     THEN \E br \in Branches, cn \in CNonces :
                            /\ cseq' = cseq + 1
                            /\ branch' = br
                            /\ sent' = Append(sent, create_invite_with_auth_and_sdp(
                                 cseq + 1, br, parse_auth_header(RtpChallengeValue(r)), cn))
                            /\ elapsed' = 0
                            /\ pc' = RtpAfterRetry
                            /\ UNCHANGED <<outcome, exit, sockOpen>>
                     ELSE /\ Return(RtpReturnValue(RtpFirstBranch(r)), RtpFirstBranch(r))
                          /\ UNCHANGED <<cseq, branch, sent, elapsed>>
  /\ UNCHANGED <<unitVars, bye, before, impl, call_id, tag, answer, streamer, chunks, rtp, streamRes, series, prev>>

\* lines 427-490: one iteration of the wait loop that receives a datagram
RtpLoopResponse ==
  /\ impl = RtpClient /\ pc = "AwaitAnswer" /\ elapsed < MaxWaitTime
  /\ Len(rcvd) < ResponseLimit
  /\ \E r \in Responses, d \in Delays :
       /\ rcvd' = Append(rcvd, Event(r))
       /\ last' = Event(r)
       /\ elapsed' = Elapsed(elapsed, d)
       /\ IF ~r.decodable
          THEN /\ Return(RtpReturnValue("L500"), "L500")
               /\ UNCHANGED <<sent, answer, streamer, chunks, streamRes>>
          ELSE IF RtpLoopBranch(r) \in {"progress", "ignored"}
          THEN UNCHANGED <<pc, outcome, exit, sockOpen, sent, answer, streamer, chunks,
                           streamRes>>
          ELSE IF RtpLoopBranch(r) = "answered"
          THEN /\ answer' = r.body
               /\ LET ep == parse_sdp_response(r) IN
                  IF Usable(ep)
                  THEN /\ sent' = Append(sent, create_ack_message(cseq, branch))
                       /\ streamer' = [remote_ip |-> ep.ip, remote_port |-> ep.port]
                       /\ chunks' \in 0..ChunkLimit
                       /\ streamRes' = "running"
                       /\ pc' = "Streaming"
                       /\ UNCHANGED <<outcome, exit, sockOpen>>
                  ELSE /\ Return(RtpReturnValue("L472"), "L472")
                       /\ UNCHANGED <<sent, streamer, chunks, streamRes>>
          ELSE /\ Return(RtpReturnValue(RtpLoopBranch(r)), RtpLoopBranch(r))
               /\ UNCHANGED <<sent, answer, streamer, chunks, streamRes>>
  /\ UNCHANGED <<unitVars, bye, before, impl, cseq, branch, call_id, tag, response_text, rtp, series, prev>>

\* lines 427-439: an iteration of the wait loop that receives one more
\* datagram than the history of the call records; it takes a branch that only
\* prints, or none, and the loop goes on, some seconds later
RtpLoopMore ==
  /\ impl = RtpClient /\ pc = "AwaitAnswer" /\ elapsed < MaxWaitTime
  /\ Len(rcvd) >= ResponseLimit
  /\ \E r \in Responses, d \in Delays \ {0} :
       /\ r.decodable
       /\ RtpLoopBranch(r) \in {"progress", "ignored"}
       /\ last' = Event(r)
       /\ elapsed' = Elapsed(elapsed, d)
  /\ UNCHANGED <<unitVars, bye, before, impl, pc, cseq, branch, call_id, tag, sockOpen, sent, rcvd, response_text,
                 answer, streamer, chunks, rtp, streamRes, outcome, exit, series, prev>>

\* lines 483-494: one iteration of the wait loop whose receive times out
RtpLoopTimeout ==
  /\ impl = RtpClient /\ pc = "AwaitAnswer" /\ elapsed < MaxWaitTime
  /\ elapsed' = Elapsed(elapsed, SockTimeout)
  /\ last' = "timeout"
  /\ IF Elapsed(elapsed, SockTimeout) >= MaxWaitTime
     THEN Return(RtpReturnValue("L494"), "L494")
     ELSE UNCHANGED <<pc, outcome, exit, sockOpen>>
  /\ UNCHANGED <<unitVars, bye, before, impl, cseq, branch, call_id, tag, sent, rcvd, response_text, answer,
                 streamer, chunks, rtp, streamRes, series, prev>>

\* lines 427 and 492-494: the loop condition fails
RtpLoopExpired ==
  /\ impl = RtpClient /\ pc = "AwaitAnswer" /\ elapsed >= MaxWaitTime
  /\ Return(RtpReturnValue("L494"), "L494")
  /\ UNCHANGED <<unitVars, bye, before, impl, cseq, branch, call_id, tag, sent, rcvd, response_text, last,
                 elapsed, answer, streamer, chunks, rtp, streamRes, series, prev>>

-----------------------------------------------------------------------------
(* RTPAudioStreamer.stream_audio_file, run by the thread of lines 459-465 *)

\* the destination of socket.sendto at line 127
RtpTarget == [ip |-> streamer.remote_ip, port |-> streamer.remote_port]

\* lines 119-130: one chunk is framed and sent
RtpStreamSend ==
  /\ pc = "Streaming" /\ streamRes = "running"
  /\ Len(rtp) < chunks
  /\ rtp' = Append(rtp, RtpTarget)
  /\ UNCHANGED <<unitVars, bye, before, impl, pc, cseq, branch, call_id, tag, sockOpen, sent, rcvd,
                 response_text, last, elapsed, answer, streamer, chunks, streamRes,
                 outcome, exit, series, prev>>

\* lines 135-137: bind, file loading or sendto raised
RtpStreamError ==
  /\ pc = "Streaming" /\ streamRes = "running"
  /\ streamRes' = "False"
  /\ UNCHANGED <<unitVars, bye, before, impl, pc, cseq, branch, call_id, tag, sockOpen, sent, rcvd,
                 response_text, last, elapsed, answer, streamer, chunks, rtp,
                 outcome, exit, series, prev>>

\* lines 132-133: every chunk was sent
RtpStreamComplete ==
  /\ pc = "Streaming" /\ streamRes = "running"
  /\ Len(rtp) = chunks
  /\ streamRes' = "True"
  /\ UNCHANGED <<unitVars, bye, before, impl, pc, cseq, branch, call_id, tag, sockOpen, sent, rcvd,
                 response_text, last, elapsed, answer, streamer, chunks, rtp,
                 outcome, exit, series, prev>>

\* lines 465-469: the thread is joined and the call returns True
RtpJoin ==
  /\ impl = RtpClient /\ pc = "Streaming" /\ streamRes # "running"
  /\ Return(RtpReturnValue("L469"), "L469")
  /\ UNCHANGED <<unitVars, bye, before, impl, cseq, branch, call_id, tag, sent, rcvd, response_text, last,
                 elapsed, answer, streamer, chunks, rtp, streamRes, series, prev>>

\* lines 463-465: the far end hangs up while the audio is streamed; its BYE
\* arrives at the signaling socket, which the call, waiting in join(), does
\* not read
RtpByeArrives ==
  /\ impl = RtpClient /\ pc = "Streaming" /\ streamRes = "running"
  /\ bye = <<>>
  /\ bye' = <<Len(rtp)>>
  /\ UNCHANGED <<unitVars, callVarsButBye>>

-----------------------------------------------------------------------------
(* AuthenticatedSIPClient.make_authenticated_call *)

\* lines 136-146 and 190-195: what the response to the first INVITE leads to;
\* "L205" is the end of the function, reached without a return statement
AuthFirstBranch(r) ==
  IF Has(r, S401) \/ Has(r, S407)
  THEN IF r.hdr.name \in {"WWW-Authenticate", "Proxy-Authenticate"} /\ r.hdr.value.text # ""
       THEN "retry" ELSE "L205"
  ELSE IF Has(r, S200) THEN "L192"
  ELSE "L195"

\* lines 140-144: the value of the first challenge header
AuthChallengeValue(r) == r.hdr.value

\* lines 164-189: what the response to the authenticated INVITE leads to
AuthFinalBranch(r) ==
  IF Has(r, S200) THEN "L168"
  ELSE IF Has(r, S100) \/ Has(r, S180) THEN "progress"
  ELSE "L189"

\* lines 178-183: the branch a response takes in the `while True` loop
AuthProgressBranch(r) ==
  IF Has(r, S200) THEN "L180"
  ELSE IF Has(r, S486) \/ Has(r, S404) THEN "L183"
  ELSE "ignored"

\* the value of the return statement at a line of make_authenticated_call;
\* the function ends at line 205 without one and so returns None
AuthReturnValue(line) ==
  IF line \in {"L168", "L180", "L192"} THEN "True"
  ELSE IF line = "L205" THEN "None"
  ELSE "False"

\* lines 118-128: socket set-up and the first INVITE. When socket.socket()
\* itself raises, sock was never bound: the except clause runs, and the
\* sock.close() of the finally clause raises UnboundLocalError out of the call
AuthPlaceCall ==
  /\ impl = AuthClient /\ pc = "Idle"
  /\ \/ /\ last' = "no socket"
        /\ Raise("UnboundLocalError", "L205")
        /\ sent' = sent
     \/ /\ last' = "socket error"
        /\ Return(AuthReturnValue("L203"), "L203")
        /\ sent' = sent
     \/ /\ sent' = Append(sent, create_invite_with_auth(cseq, branch, NoAuthInfo, NoneVal))
        /\ sockOpen' = TRUE
        /\ pc' = "AwaitFirst"
        /\ UNCHANGED <<last, outcome, exit>>
  /\ UNCHANGED <<unitVars, bye, before, impl, cseq, branch, call_id, tag, rcvd, response_text, elapsed, answer,
                 streamer, chunks, rtp, streamRes, series, prev>>

\* lines 130-156 and 190-199: the response to the first INVITE
AuthFirstResponse ==
  /\ impl = AuthClient /\ pc = "AwaitFirst"
  /\ \/ /\ last' = "timeout"
        /\ Return(AuthReturnValue("L199"), "L199")
        /\ UNCHANGED <<cseq, branch, sent, rcvd, response_text>>
     \/ \E r \in Responses :
          /\ Len(rcvd) < ResponseLimit
          /\ rcvd' = Append(rcvd, Event(r))
          /\ last' = Event(r)
          /\ IF ~r.decodable
             THEN /\ Return(AuthReturnValue("L203"), "L203")
                  /\ UNCHANGED <<cseq, branch, sent, response_text>>
             ELSE /\ response_text' = r
                  /\ IF AuthFirstBranch(r) = "retry"
                     THEN \E br \in Branches, cn \in CNonces :
                            /\ cseq' = cseq + 1
                            /\ branch' = br
                            /\ sent' = Append(sent, create_invite_with_auth(
                                 cseq + 1, br, parse_auth_header(AuthChallengeValue(r)), cn))
                            /\ pc' = "AwaitFinal"
                            /\ UNCHANGED <<outcome, exit, sockOpen>>
                     ELSE /\ Return(AuthReturnValue(AuthFirstBranch(r)), AuthFirstBranch(r))
                          /\ UNCHANGED <<cseq, branch, sent>>
  /\ UNCHANGED <<unitVars, bye, before, impl, call_id, tag, elapsed, answer, streamer, chunks, rtp, streamRes,
                 series, prev>>

\* lines 158-189 and 197-199: the response to the authenticated INVITE
AuthFinalResponse ==
  /\ impl = AuthClient /\ pc = "AwaitFinal"
  /\ \/ /\ last' = "timeout"
        /\ Return(AuthReturnValue("L199"), "L199")
        /\ rcvd' = rcvd
     \/ \E r \in Responses :
          /\ Len(rcvd) < ResponseLimit
          /\ rcvd' = Append(rcvd, Event(r))
          /\ last' = Event(r)
          /\ IF ~r.decodable
             THEN Return(AuthReturnValue("L203"), "L203")
             ELSE IF AuthFinalBranch(r) = "progress"
             THEN pc' = "AwaitProgress" /\ UNCHANGED <<outcome, exit, sockOpen>>
             ELSE Return(AuthReturnValue(AuthFinalBranch(r)), AuthFinalBranch(r))
  /\ UNCHANGED <<unitVars, bye, before, impl, cseq, branch, call_id, tag, sent, response_text, elapsed, answer,
                 streamer, chunks, rtp, streamRes, series, prev>>

\* lines 172-186: one iteration of the `while True` loop; a timeout breaks out
\* of it, to the end of the function
AuthProgressResponse ==
  /\ impl = AuthClient /\ pc = "AwaitProgress"
  /\ \/ /\ last' = "timeout"
        /\ Return(AuthReturnValue("L205"), "L205")
        /\ rcvd' = rcvd
     \/ \E r \in Responses :
          /\ Len(rcvd) < ResponseLimit
          /\ rcvd' = Append(rcvd, Event(r))
          /\ last' = Event(r)
          /\ IF ~r.decodable
             THEN Return(AuthReturnValue("L203"), "L203")
             ELSE IF AuthProgressBranch(r) = "ignored"
             THEN UNCHANGED <<pc, outcome, exit, sockOpen>>
             ELSE Return(AuthReturnValue(AuthProgressBranch(r)), AuthProgressBranch(r))
  /\ UNCHANGED <<unitVars, bye, before, impl, cseq, branch, call_id, tag, sent, response_text, elapsed, answer,
                 streamer, chunks, rtp, streamRes, series, prev>>

\* lines 172-183: an iteration of the `while True` loop that receives one
\* more datagram than the history of the call records and matches none of
\* the phrases of the loop: nothing is done and the loop goes on
AuthProgressMore ==
  /\ impl = AuthClient /\ pc = "AwaitProgress"
  /\ Len(rcvd) >= ResponseLimit
  /\ \E r \in Responses :
       /\ r.decodable
       /\ AuthProgressBranch(r) = "ignored"
       /\ last' = Event(r)
  /\ UNCHANGED <<unitVars, bye, before, impl, pc, cseq, branch, call_id, tag, sockOpen, sent, rcvd,
                 response_text, elapsed, answer, streamer, chunks, rtp, streamRes, outcome,
                 exit, series, prev>>

-----
(* main() run again: a new VoiceRTPSIPClient is constructed and places the  *)
(* next call of the series                                                 *)

\* why the call ended, in the words of the outcome taxonomy: read off the
\* history of the call, not off the value it returned
EndReason ==
  IF Acked THEN "Connected"
  ELSE IF last = S486 THEN "Busy"
  ELSE IF last = S404 THEN "NotFound"
  ELSE IF last = S603 THEN "Declined"
  ELSE IF last = "undecodable" THEN "ProtocolError"
  ELSE IF last \in Challenge THEN "AuthFailed"
  ELSE IF last = "timeout"
       THEN IF Len(sent) >= 2 /\ Len(rcvd) >= 2 /\ rcvd[Len(rcvd)] \in Challenge
            THEN "AuthFailed" ELSE "Timeout"
  ELSE "Other"

NewRtpCall ==
  /\ series /\ impl = RtpClient /\ pc = "Done"
  /\ prev' = [reason |-> EndReason, outcome |-> outcome]
  /\ pc' = "Idle"
  /\ cseq' = InitialCSeq
  /\ branch' \in Branches
  /\ call_id' \in CallIds
  /\ tag' \in Tags
  /\ sockOpen' = FALSE
  /\ sent' = <<>>
  /\ rcvd' = <<>>
  /\ last' = "none"
  /\ response_text' = NoResponse
  /\ elapsed' = 0
  /\ answer' = NoBody
  /\ streamer' = NoStreamer
  /\ chunks' = 0
  /\ rtp' = <<>>
  /\ streamRes' = "none"
  /\ outcome' = "pending"
  /\ exit' = "none"
  /\ bye' = <<>>
  /\ before' = NoBefore
  /\ UNCHANGED <<unitVars, impl, series>>

\* the nonce of the Authorization header the call sent, "none" without one
NonceSent ==
  IF \E i \in 1..Len(sent) : sent[i].auth.present
  THEN sent[CHOOSE i \in 1..Len(sent) : sent[i].auth.present].auth.nonce
  ELSE "none"

\* lines 369-378: make_voice_call_with_rtp is called again on the client
\* object of a call that has returned; the attributes __init__ set (lines
\* 155-160) are what the previous call left
RtpCallAgain ==
  /\ series /\ impl = RtpClient /\ pc = "Done" /\ cseq <= MaxCSeq
  /\ before' = IF sent = <<>> THEN NoBefore
                ELSE [call_id |-> sent[1].call_id, tag |-> sent[1].tag,
                      nonce |-> NonceSent]
  /\ pc' = "Idle"
  /\ sockOpen' = FALSE
  /\ sent' = <<>>
  /\ rcvd' = <<>>
  /\ last' = "none"
  /\ response_text' = NoResponse
  /\ elapsed' = 0
  /\ answer' = NoBody
  /\ streamer' = NoStreamer
  /\ chunks' = 0
  /\ rtp' = <<>>
  /\ streamRes' = "none"
  /\ outcome' = "pending"
  /\ exit' = "none"
  /\ bye' = <<>>
  /\ UNCHANGED <<unitVars, impl, series, prev, cseq, branch, call_id, tag>>

Next ==
  \/ RtpPlaceCall
  \/ RtpFirstResponse
  \/ RtpLoopResponse
  \/ RtpLoopMore
  \/ RtpLoopTimeout
  \/ RtpLoopExpired
  \/ RtpStreamSend
  \/ RtpStreamError
  \/ RtpStreamComplete
  \/ RtpJoin
  \/ AuthPlaceCall
  \/ AuthFirstResponse
  \/ AuthFinalResponse
  \/ AuthProgressResponse
  \/ AuthProgressMore

Spec == Init /\ [][Next]_vars

\* a series of calls of make_voice_call_with_rtp, each by a new client object
InitCalls == Fresh /\ impl = RtpClient /\ series = TRUE /\ SdpIdle /\ StmIdle /\ TwoIdle /\ MoreIdle

NextCalls ==
  \/ RtpPlaceCall
  \/ RtpFirstResponse
  \/ RtpLoopResponse
  \/ RtpLoopMore
  \/ RtpLoopTimeout
  \/ RtpLoopExpired
  \/ RtpStreamSend
  \/ RtpStreamError
  \/ RtpStreamComplete
  \/ RtpJoin
  \/ NewRtpCall

SpecCalls == InitCalls /\ [][NextCalls]_vars

\* one call of make_voice_call_with_rtp, within the bounds of a call of a
\* series, whose thread, and the streamer thread it joins, keep running:
\* every receive returns or times out, every sleep ends
InitRtp == Fresh /\ impl = RtpClient /\ series = TRUE /\ SdpIdle /\ StmIdle /\ TwoIdle /\ MoreIdle

NextRtp ==
  \/ RtpPlaceCall
  \/ RtpFirstResponse
  \/ RtpLoopResponse
  \/ RtpLoopMore
  \/ RtpLoopTimeout
  \/ RtpLoopExpired
  \/ RtpStreamSend
  \/ RtpStreamError
  \/ RtpStreamComplete
  \/ RtpJoin

SpecRtpFair == InitRtp /\ [][NextRtp]_vars /\ WF_vars(NextRtp)

\* a series of calls of make_voice_call_with_rtp through one client object
InitReuse == Fresh /\ impl = RtpClient /\ series = TRUE /\ SdpIdle /\ StmIdle /\ TwoIdle /\ MoreIdle

NextReuse ==
  \/ RtpPlaceCall
  \/ RtpFirstResponse
  \/ RtpLoopResponse
  \/ RtpLoopMore
  \/ RtpLoopTimeout
  \/ RtpLoopExpired
  \/ RtpStreamSend
  \/ RtpStreamError
  \/ RtpStreamComplete
  \/ RtpJoin
  \/ RtpCallAgain

SpecReuse == InitReuse /\ [][NextReuse]_vars

\* one call of make_authenticated_call, within the bounds of a call of a
\* series, whose thread keeps running: every receive returns or times out
InitAuth == Fresh /\ impl = AuthClient /\ series = TRUE /\ SdpIdle /\ StmIdle /\ TwoIdle /\ MoreIdle

NextAuth ==
  \/ AuthPlaceCall
  \/ AuthFirstResponse
  \/ AuthFinalResponse
  \/ AuthProgressResponse
  \/ AuthProgressMore

SpecAuthFair == InitAuth /\ [][NextAuth]_vars /\ WF_vars(NextAuth)

\* one call of make_voice_call_with_rtp to a far end that may hang up
InitBye == Fresh /\ impl = RtpClient /\ series = FALSE /\ SdpIdle /\ StmIdle /\ TwoIdle /\ MoreIdle

NextBye ==
  \/ RtpPlaceCall
  \/ RtpFirstResponse
  \/ RtpLoopResponse
  \/ RtpLoopMore
  \/ RtpLoopTimeout
  \/ RtpLoopExpired
  \/ RtpStreamSend
  \/ RtpStreamError
  \/ RtpStreamComplete
  \/ RtpJoin
  \/ RtpByeArrives

SpecBye == InitBye /\ [][NextBye]_vars

-----------------------------------------------------------------------------
(* create_invite_with_auth_and_sdp and parse_sdp_response on their own: a   *)
(* client object builds an INVITE and parses the text it built             *)

\* get_local_ip: the address of the outgoing interface, or 127.0.0.1
LocalIps == {"127.0.0.1", "192.168.1.10", "10.0.0.5"}
\* self.rtp_port = random.randint(10000, 20000), three representatives
RtpPorts == {IntOf["10000"], IntOf["15000"], IntOf["20000"]}
\* random.randint(1000000, 9999999) of the o= line, two representatives
SessionIds == {"1000000", "9999999"}

\* the auth_info arguments: None, or a parsed challenge
AuthInfos == {NoAuthInfo} \cup {parse_auth_header(v) : v \in ChallengeValues}

\* lines 302-341: create_invite_with_auth_and_sdp(to_number, auth_info)
SdpBuildInvite ==
  /\ message = <<>>
  /\ \E auth_info \in AuthInfos, cn \in CNonces, sid \in SessionIds, ver \in SessionIds :
       message' = InviteMessage(create_invite_with_auth_and_sdp(cseq, branch, auth_info, cn),
                                local_ip,
                                create_sdp_body(local_ip, rtp_port, sid, ver))
  /\ UNCHANGED <<callVars, stmVars, twoVars, moreVars, local_ip, rtp_port, parsed>>

\* lines 343-367: parse_sdp_response(message)
SdpParse ==
  /\ message # <<>>
  /\ parsed = Unparsed
  /\ parsed' = parse_sdp_response(TextResponse(message))
  /\ UNCHANGED <<callVars, stmVars, twoVars, moreVars, local_ip, rtp_port, message>>

InitSdp ==
  /\ Fresh /\ impl = RtpClient /\ series = FALSE /\ StmIdle /\ TwoIdle /\ MoreIdle
  /\ local_ip \in LocalIps
  /\ rtp_port \in RtpPorts
  /\ message = <<>>
  /\ parsed = Unparsed

NextSdp ==
  \/ SdpBuildInvite
  \/ SdpParse

SpecSdp == InitSdp /\ [][NextSdp]_vars

-----------------------------------------------------------------------------
(* RTPAudioStreamer on its own: one streamer object, as its constructor    *)
(* leaves it, runs stream_audio_file once                                  *)

\* an unsigned number below 2^32 (hi < 65536) or beyond it, in two 16-bit
\* halves: hi * 65536 + lo
U32(h, l) == [hi |-> h, lo |-> l]
\* x + n, for 0 <= n < 65536; a Python int, it does not wrap
Plus(x, n) == U32(x.hi + (x.lo + n) \div 65536, (x.lo + n) % 65536)
\* struct's format I takes 0 .. 2^32 - 1
FitsI(x) == x.hi \in 0..65535
\* struct's format H takes 0 .. 65535
FitsH(n) == n \in 0..65535

\* random.randint(0, 65535), representatives
SeqSeeds == {0, 1000, 65534, 65535}
\* random.randint(0, 4294967295), representatives
TimestampSeeds ==
  {U32(0, 0), U32(30000, 65500), U32(65535, 65216), U32(65535, 65376), U32(65535, 65535)}
Ssrcs == {U32(0, 1), U32(65535, 65535)}
\* len(ulaw_audio): empty, below, at and above one, two and three chunks
AudioLens == {0, 1, 159, 160, 161, 320, 321, 480}

\* mutant: the sequence number is incremented without the modulus
NextSeq_NoWrap(n) == n + 1

\* line 53
NextSeq(n) == (n + 1) % SeqModulus

\* lines 45-51: struct.pack('!BBHII', ...), the header fields in order, or
\* the struct.error it raises for the first field out of range
PackError(seq, ts, id) ==
  IF ~FitsH(seq) THEN "struct.error: sequence_number"
  ELSE IF ~FitsI(ts) THEN "struct.error: timestamp"
  ELSE IF ~FitsI(id) THEN "struct.error: ssrc"
  ELSE "none"

\* lines 36-56: the packet create_rtp_packet returns for a payload
create_rtp_packet(payload) ==
  [ b0 |-> 2 * 64 + 0 * 32 + 0 * 16 + 0,   \* version, padding, extension, cc
    b1 |-> 0 * 128 + 0,                    \* marker, pt
    seq |-> sequence_number,
    ts |-> timestamp,
    ssrc |-> ssrc,
    header_len |-> 1 + 1 + 2 + 4 + 4,      \* !BBHII
    payload |-> payload ]

\* lines 120-123: ulaw_audio[i:i+chunk_size], padded with 0x7f to chunk_size
Chunk(i) ==
  LET data == IF ulaw_len - i < chunk_size THEN ulaw_len - i ELSE chunk_size
  IN [from |-> i, data |-> data, pad |-> chunk_size - data, fill |-> "0x7f"]

PayloadLen(payload) == payload.data + payload.pad

\* mutant: the loop variable does not advance
NextOffset_Stuck(i) == i

\* line 119: range(0, len(ulaw_audio), chunk_size)
NextOffset(i) == i + chunk_size

\* mutant: the finally clause leaves the socket open
Closed_Leak(sock) == sock

\* lines 138-140: the finally clause
Closed(sock) == IF sock = "open" THEN "closed" ELSE sock

\* the milliseconds one iteration takes to cut the chunk, build the packet
\* and hand it to sendto: none that a millisecond clock shows, or one
WorkTimes == {0, 1}

\* line 130: time.sleep(0.02) ends 20 ms after it was called
AfterSleep(t) == t + PacketTime

\* lines 135-140: the except clause returns False
StmFail(sock, why) ==
  /\ error' = why
  /\ result' = "False"
  /\ rtp_socket' = Closed(sock)
  /\ spc' = "Returned"

\* lines 99-118: the socket is created and bound, the audio loaded and encoded
StmStart ==
  /\ spc = "Created"
  /\ \/ StmFail("None", "socket")
     \/ StmFail("open", "bind")
     \/ StmFail("open", "audio")
     \/ /\ rtp_socket' = "open"
        /\ spc' = "Sending"
        /\ UNCHANGED <<error, result>>
  /\ UNCHANGED <<callVars, sdpVars, twoVars, moreVars, sequence_number, timestamp, ssrc, ulaw_len, offset,
                 packets, clock, send_times>>

\* lines 119-130: one iteration of the loop: a chunk is cut and padded, the
\* packet built and handed to sendto
StmSendChunk ==
  /\ spc = "Sending"
  /\ offset < ulaw_len
  /\ Len(packets) < MaxPackets
  /\ LET chunk == Chunk(offset)
         why == PackError(sequence_number, timestamp, ssrc)
     IN IF why # "none"
        THEN /\ StmFail(rtp_socket, why)
             /\ UNCHANGED <<sequence_number, timestamp, offset, packets, clock, send_times>>
        ELSE /\ sequence_number' = NextSeq(sequence_number)
             /\ timestamp' = Plus(timestamp, PayloadLen(chunk))
             /\ \/ \E work \in WorkTimes :
                     /\ packets' = Append(packets, create_rtp_packet(chunk))
                     /\ send_times' = Append(send_times, clock + work)
                     /\ clock' = AfterSleep(clock + work)
                     /\ offset' = NextOffset(offset)
                     /\ UNCHANGED <<spc, rtp_socket, error, result>>
                \/ /\ StmFail(rtp_socket, "sendto")
                   /\ UNCHANGED <<offset, packets, clock, send_times>>
  /\ UNCHANGED <<callVars, sdpVars, twoVars, moreVars, ssrc, ulaw_len>>

\* lines 132-133 and 138-140: the loop is over
StmComplete ==
  /\ spc = "Sending"
  /\ offset >= ulaw_len
  /\ result' = "True"
  /\ rtp_socket' = Closed(rtp_socket)
  /\ spc' = "Returned"
  /\ UNCHANGED <<callVars, sdpVars, twoVars, moreVars, sequence_number, timestamp, ssrc, ulaw_len, offset,
                 packets, error, clock, send_times>>

\* lines 25-32: RTPAudioStreamer(remote_ip, remote_port, local_port)
InitStream ==
  /\ Fresh /\ impl = RtpClient /\ series = FALSE /\ SdpIdle /\ TwoIdle /\ MoreIdle
  /\ spc = "Created"
  /\ sequence_number \in SeqSeeds
  /\ timestamp \in TimestampSeeds
  /\ ssrc \in Ssrcs
  /\ rtp_socket = "None"
  /\ ulaw_len \in AudioLens
  /\ offset = IntOf["0"]
  /\ packets = <<>>
  /\ error = "none"
  /\ result = "none"
  /\ clock = IntOf["0"]
  /\ send_times = <<>>

NextStream ==
  \/ StmStart
  \/ StmSendChunk
  \/ StmComplete

SpecStream == InitStream /\ [][NextStream]_vars

-----------------------------------------------------------------------------
(* Two calls of make_voice_call_with_rtp at the same time, by two client
   objects of one process or of two processes in one working directory *)

\* lines 378-381, 182-184 and 233-240: generate_speech returns None, the call
\* returns False; audio_file is None and the finally clause removes nothing
TwoSpeechFails(c) ==
  /\ tpc[c] = "Idle"
  /\ tpc' = [tpc EXCEPT ![c] = "Done"]
  /\ tres' = [tres EXCEPT ![c] = "False"]
  /\ UNCHANGED <<callVars, sdpVars, stmVars, moreVars, temp_speech, loaded>>

\* lines 378 and 180-231: generate_speech writes the speech of this call to
\* its default filename, temp_speech.wav, whatever the file held
TwoGenerateSpeech(c) ==
  /\ tpc[c] = "Idle"
  /\ temp_speech' = c
  /\ tpc' = [tpc EXCEPT ![c] = "Signaling"]
  /\ UNCHANGED <<callVars, sdpVars, stmVars, moreVars, loaded, tres>>

\* lines 472-506: the call is not answered and returns False; the finally
\* clause removes temp_speech.wav when it exists
TwoCallFails(c) ==
  /\ tpc[c] = "Signaling"
  /\ temp_speech' = "absent"
  /\ tpc' = [tpc EXCEPT ![c] = "Done"]
  /\ tres' = [tres EXCEPT ![c] = "False"]
  /\ UNCHANGED <<callVars, sdpVars, stmVars, moreVars, loaded>>

\* lines 440-465: the call is answered; the streamer thread is started, it
\* sleeps one second, and the call waits in join()
TwoAnswered(c) ==
  /\ tpc[c] = "Signaling"
  /\ tpc' = [tpc EXCEPT ![c] = "Sleeping"]
  /\ UNCHANGED <<callVars, sdpVars, stmVars, moreVars, temp_speech, loaded, tres>>

\* lines 461, 107 and 135-140: the streamer loads temp_speech.wav as it is
\* now; from_file raises when the file is gone and stream_audio_file returns
\* without a packet
TwoLoadAudio(c) ==
  /\ tpc[c] = "Sleeping"
  /\ loaded' = [loaded EXCEPT ![c] = IF temp_speech = "absent" THEN "missing"
                                     ELSE temp_speech]
  /\ tpc' = [tpc EXCEPT ![c] = IF temp_speech = "absent" THEN "Streamed"
                               ELSE "Streaming"]
  /\ UNCHANGED <<callVars, sdpVars, stmVars, moreVars, temp_speech, tres>>

\* lines 117-133: the audio that was loaded is sent, packet after packet
TwoStreamAudio(c) ==
  /\ tpc[c] = "Streaming"
  /\ tpc' = [tpc EXCEPT ![c] = "Streamed"]
  /\ UNCHANGED <<callVars, sdpVars, stmVars, moreVars, temp_speech, loaded, tres>>

\* lines 465-469 and 501-506: the thread is joined, the call returns True and
\* the finally clause removes temp_speech.wav when it exists
TwoReturn(c) ==
  /\ tpc[c] = "Streamed"
  /\ temp_speech' = "absent"
  /\ tpc' = [tpc EXCEPT ![c] = "Done"]
  /\ tres' = [tres EXCEPT ![c] = "True"]
  /\ UNCHANGED <<callVars, sdpVars, stmVars, moreVars, loaded>>

InitTwo == Fresh /\ impl = RtpClient /\ series = FALSE /\ SdpIdle /\ StmIdle /\ TwoIdle /\ MoreIdle

NextTwo ==
  \/ \E c \in Calls : TwoSpeechFails(c)
  \/ \E c \in Calls : TwoGenerateSpeech(c)
  \/ \E c \in Calls : TwoCallFails(c)
  \/ \E c \in Calls : TwoAnswered(c)
  \/ \E c \in Calls : TwoLoadAudio(c)
  \/ \E c \in Calls : TwoStreamAudio(c)
  \/ \E c \in Calls : TwoReturn(c)

SpecTwo == InitTwo /\ [][NextTwo]_vars

-----------------------------------------------------------------------------
(* RTPAudioStreamer.convert_to_ulaw, on one 16-bit sample *)

\* struct.unpack('<h', ...): the 16-bit samples
Samples == -32768..32767

\* x >> n, also for a negative x
ShiftRight(x, n) == x \div (2^n)

\* audioop.lin2ulaw(audio_data, 2) of line 63, on one sample: the G.711
\* encoder of the interpreter, on the upper 14 bits, clip 8159, bias 33
lin2ulaw(sample) ==
  LET v0 == ShiftRight(sample, 2)
      negative == v0 < 0
      v1 == IF negative THEN -v0 ELSE v0
      v == (IF v1 > 8159 THEN 8159 ELSE v1) + 33
      seg == Cardinality({i \in 0..7 : v > 2^(i + 6) - 1})
      uval == IF seg >= 8 THEN 127
              ELSE seg * 16 + (ShiftRight(v, seg + 1) % 16)
  IN IF negative THEN 127 - uval ELSE 255 - uval

\* lines 82-86: segment = 0; temp = magnitude >> 5; while temp and
\* segment < 7: segment += 1; temp >>= 1
RECURSIVE SegmentLoop(_, _)
SegmentLoop(temp, segment) ==
  IF temp # 0 /\ segment < 7 THEN SegmentLoop(ShiftRight(temp, 1), segment + 1)
  ELSE segment

\* lines 66-93: the loop body of the except clause, on one sample
FallbackUlaw(sample) ==
  LET sign == IF sample >= 0 THEN 128 ELSE 0
      magnitude == IF sample >= 0 THEN sample ELSE -sample
      clipped == IF magnitude < 8191 THEN magnitude ELSE 8191
      segment == SegmentLoop(ShiftRight(clipped, 5), 0)
      ulaw == sign + segment * 16 + (ShiftRight(clipped, segment + 1) % 16)
  IN 255 - ulaw

\* lines 60-64: audioop.lin2ulaw encodes the sample
UlawEncode ==
  /\ upath = "none"
  /\ ulaw_byte' = <<lin2ulaw(pcm)>>
  /\ upath' = "audioop"
  /\ UNCHANGED <<callVars, sdpVars, stmVars, twoVars, agentVars, metaVars, svcVars, pcm>>

\* lines 65-95: audioop.lin2ulaw raised (the data holds half a sample more)
\* and the except clause encodes the sample
UlawFallback ==
  /\ upath = "none"
  /\ ulaw_byte' = <<FallbackUlaw(pcm)>>
  /\ upath' = "fallback"
  /\ UNCHANGED <<callVars, sdpVars, stmVars, twoVars, agentVars, metaVars, svcVars, pcm>>

InitUlaw ==
  /\ Fresh /\ impl = RtpClient /\ series = FALSE /\ SdpIdle /\ StmIdle /\ TwoIdle /\ AgentIdle /\ MetaIdle /\ SvcIdle
  /\ pcm \in Samples
  /\ ulaw_byte = <<>>
  /\ upath = "none"

NextUlaw ==
  \/ UlawEncode
  \/ UlawFallback

SpecUlaw == InitUlaw /\ [][NextUlaw]_vars

-----------------------------------------------------------------------------
(* agent_entry_point and CallAgent, of agent/call_agent.py and of
   src/agent/call_agent.py *)

OldAgent == "agent/call_agent.py"
NewAgent == "src/agent/call_agent.py"

\* the statuses cleanup() leaves alone: ["completed", "failed"] in
\* agent/call_agent.py, and "timeout" too in src/agent/call_agent.py
CleanupSkips(version) ==
  IF version = NewAgent THEN {"completed", "failed", "timeout"}
  ELSE {"completed", "failed"}

\* CallAgent.cleanup() on the record of the agent i: a record that is not
\* final yet becomes "completed" and ended_at is set
Cleanup(recs, i) ==
  IF recs[i] # NoRecord /\ recs[i].status \notin CleanupSkips(aversion)
  THEN [recs EXCEPT ![i] = [status |-> "completed", ended_at |-> utcnow]]
  ELSE recs

\* the except clause of agent_entry_point: the record, when there is one,
\* becomes "failed"
MarkFailed(recs, i) ==
  IF recs[i] # NoRecord
  THEN [recs EXCEPT ![i] = [@ EXCEPT !.status = "failed"]]
  ELSE recs

\* agent_instance = CallAgent(ctx), then on_enter() up to the end of start():
\* _create_call_record adds the record with status "initiated", or fails and
\* leaves call_record None; the event handlers are set when there is a record
EntryCreate ==
  /\ epc = "Begin"
  /\ agent_instance < max_retries + 1
  /\ agent_instance' = agent_instance + 1
  /\ \/ records' = [records EXCEPT ![agent_instance + 1] =
                      [status |-> "initiated", ended_at |-> 0]]
     \/ records' = records
  /\ epc' = "OnEnter"
  /\ UNCHANGED <<callVars, sdpVars, stmVars, twoVars, ulawVars, metaVars, svcVars, aversion, retry_count, cleaned,
                 events, utcnow>>

\* on_enter() returns. agent/call_agent.py: the finally clause runs
\* cleanup(). src/agent/call_agent.py: `break` leaves the loop, and the
\* cleanup at the end of the loop body with it
EntryEntered ==
  /\ epc = "OnEnter"
  /\ IF aversion = OldAgent
     THEN /\ records' = Cleanup(records, agent_instance)
          /\ cleaned' = cleaned \cup {agent_instance}
          /\ utcnow' = utcnow + 1
     ELSE UNCHANGED <<records, cleaned, utcnow>>
  /\ epc' = "Finished"
  /\ UNCHANGED <<callVars, sdpVars, stmVars, twoVars, ulawVars, metaVars, svcVars, aversion, retry_count,
                 agent_instance, events>>

\* on_enter() raises. agent/call_agent.py: the record becomes "failed" and
\* the finally clause runs cleanup(). src/agent/call_agent.py: retry_count is
\* incremented, the record becomes "failed", and the error is raised again
\* when no attempt is left, else the function sleeps 5 seconds
EntryFailed ==
  /\ epc = "OnEnter"
  /\ IF aversion = OldAgent
     THEN /\ records' = Cleanup(MarkFailed(records, agent_instance), agent_instance)
          /\ cleaned' = cleaned \cup {agent_instance}
          /\ utcnow' = utcnow + 1
          /\ epc' = "Finished"
          /\ UNCHANGED retry_count
     ELSE /\ retry_count' = retry_count + 1
          /\ records' = MarkFailed(records, agent_instance)
          /\ epc' = IF retry_count + 1 <= max_retries THEN "Sleeping" ELSE "Raised"
          /\ UNCHANGED <<cleaned, utcnow>>
  /\ UNCHANGED <<callVars, sdpVars, stmVars, twoVars, ulawVars, metaVars, svcVars, aversion, agent_instance, events>>

\* src/agent/call_agent.py lines 558-564: after the sleep, cleanup() of the
\* agent that failed, and the loop starts the next attempt
EntryCleanup ==
  /\ epc = "Sleeping"
  /\ records' = Cleanup(records, agent_instance)
  /\ cleaned' = cleaned \cup {agent_instance}
  /\ utcnow' = utcnow + 1
  /\ epc' = "Begin"
  /\ UNCHANGED <<callVars, sdpVars, stmVars, twoVars, ulawVars, metaVars, svcVars, aversion, retry_count,
                 agent_instance, events>>

\* the agents whose handlers the room calls: those that have a record
Listening == {i \in Instances : i <= agent_instance /\ records[i] # NoRecord}

\* CallAgent._on_participant_connected
ParticipantConnected(i) ==
  /\ i \in Listening /\ events < MaxEvents
  /\ events' = events + 1
  /\ records' = [records EXCEPT ![i] = [@ EXCEPT !.status = "connected"]]
  /\ UNCHANGED <<callVars, sdpVars, stmVars, twoVars, ulawVars, metaVars, svcVars, aversion, epc, retry_count,
                 agent_instance, cleaned, utcnow>>

\* CallAgent._on_participant_disconnected
ParticipantDisconnected(i) ==
  /\ i \in Listening /\ events < MaxEvents
  /\ events' = events + 1
  /\ records' = [records EXCEPT ![i] = [status |-> "completed", ended_at |-> utcnow]]
  /\ utcnow' = utcnow + 1
  /\ UNCHANGED <<callVars, sdpVars, stmVars, twoVars, ulawVars, metaVars, svcVars, aversion, epc, retry_count,
                 agent_instance, cleaned>>

InitAgent ==
  /\ Fresh /\ impl = RtpClient /\ series = FALSE /\ SdpIdle /\ StmIdle /\ TwoIdle /\ UlawIdle /\ MetaIdle /\ SvcIdle
  /\ aversion \in {OldAgent, NewAgent}
  /\ epc = "Begin"
  /\ retry_count = 0
  /\ agent_instance = 0
  /\ cleaned = {}
  /\ records = [i \in Instances |-> NoRecord]
  /\ events = 0
  /\ utcnow = 1

NextAgent ==
  \/ EntryCreate
  \/ EntryEntered
  \/ EntryFailed
  \/ EntryCleanup
  \/ \E i \in Instances : ParticipantConnected(i)
  \/ \E i \in Instances : ParticipantDisconnected(i)

SpecAgent == InitAgent /\ [][NextAgent]_vars

-----------------------------------------------------------------------------
(* The call context: make_sip_call writes it to the room metadata, CallAgent
   reads it back. A text is the sequence of its characters; a key of the
   metadata and a default value count as one character each. *)

Characters == {"a", " ", "|", ":"}

RECURSIVE TextsUpTo(_)
TextsUpTo(n) ==
  IF n = 0 THEN {<<>>}
  ELSE TextsUpTo(n - 1) \cup
       {Append(t, c) : t \in {u \in TextsUpTo(n - 1) : Len(u) = n - 1}, c \in Characters}

Texts == TextsUpTo(MaxLen)

\* main prompts: none, and two that hold the separators and a space
Prompts == {<<>>, <<"a", "|">>, <<":", " ">>}

\* base64.b64encode, character by character: an injective encoding into an
\* alphabet that holds neither "|" nor ":" nor a space
B64 == [c \in Characters |->
          IF c = "a" THEN "YQ" ELSE IF c = " " THEN "IA" ELSE IF c = "|" THEN "fA" ELSE "Og"]

b64encode(t) == [i \in 1..Len(t) |-> B64[t[i]]]

\* base64.b64decode(...).decode('utf-8') raises on what is no encoding
Decodable(t) == \A i \in 1..Len(t) : \E c \in Characters : B64[c] = t[i]

b64decode(t) == [i \in 1..Len(t) |-> CHOOSE c \in Characters : B64[c] = t[i]]

\* lines 61-80 of call_service.py: metadata_parts joined by "|"; agent_name
\* is not among them; db_call_id is appended when it is given
BuildMetadata(req, db_call_id) ==
  <<"call_subject", ":">> \o req.subject \o <<"|">>
  \o <<"caller_name", ":">> \o req.caller_name \o <<"|">>
  \o <<"company_name", ":">> \o req.company_name \o <<"|">>
  \o <<"main_prompt", ":">> \o b64encode(req.main_prompt)
  \o (IF db_call_id = <<>> THEN <<>> ELSE <<"|", "db_call_id", ":">> \o db_call_id)

\* the position of the first sep in t, 0 when there is none
FirstOf(t, sep) ==
  IF \E i \in 1..Len(t) : t[i] = sep
  THEN CHOOSE i \in 1..Len(t) : t[i] = sep /\ \A j \in 1..(i - 1) : t[j] # sep
  ELSE 0

\* t.split(sep)
RECURSIVE Split(_, _)
Split(t, sep) ==
  IF FirstOf(t, sep) = 0 THEN <<t>>
  ELSE <<SubSeq(t, 1, FirstOf(t, sep) - 1)>>
       \o Split(SubSeq(t, FirstOf(t, sep) + 1, Len(t)), sep)

\* t.strip()
RECURSIVE Strip(_)
Strip(t) ==
  IF t # <<>> /\ t[1] = " " THEN Strip(Tail(t))
  ELSE IF t # <<>> /\ t[Len(t)] = " " THEN Strip(SubSeq(t, 1, Len(t) - 1))
  ELSE t

\* key, value = pair.split(':', 1), both stripped
KeyOf(pair) == Strip(SubSeq(pair, 1, FirstOf(pair, ":") - 1))
ValueOf(pair) == Strip(SubSeq(pair, FirstOf(pair, ":") + 1, Len(pair)))

\* the dict the loop over metadata.split('|') fills: the pairs with a ':'
\* among them, a later pair replacing an earlier one of the same key
Has_key(meta, key) ==
  LET pairs == Split(meta, "|")
  IN \E i \in 1..Len(pairs) : FirstOf(pairs[i], ":") # 0 /\ KeyOf(pairs[i]) = <<key>>

Lookup(meta, key) ==
  LET pairs == Split(meta, "|")
      hits == {i \in 1..Len(pairs) : FirstOf(pairs[i], ":") # 0 /\ KeyOf(pairs[i]) = <<key>>}
  IN ValueOf(pairs[CHOOSE i \in hits : \A j \in hits : j <= i])

\* dict.get(key, default)
GetField(meta, key, default) ==
  IF Has_key(meta, key) THEN Lookup(meta, key) ELSE default

\* main_prompt after the decoding step; when decoding raises, the old file
\* keeps the encoded text and the new one takes a default
DecodedPrompt(meta, default, fallback) ==
  IF ~Has_key(meta, "main_prompt") THEN default
  ELSE IF Decodable(Lookup(meta, "main_prompt")) THEN b64decode(Lookup(meta, "main_prompt"))
  ELSE fallback

\* make_sip_call creates the room with the metadata
MetaCreateRoom ==
  /\ room_metadata = <<>>
  /\ \E db_call_id \in {<<>>, <<"a">>} :
       room_metadata' = BuildMetadata(request, db_call_id)
  /\ UNCHANGED <<callVars, sdpVars, stmVars, twoVars, ulawVars, agentVars, svcVars, request, entered,
                 call_info>>

\* CallAgent._create_call_record, lines 55-96: json.loads fails on this
\* text and the pipe-separated format is read
MetaCreateRecord ==
  /\ room_metadata # <<>> /\ call_info = NoFields
  /\ call_info' =
       [subject |-> GetField(room_metadata, "subject",
                      GetField(room_metadata, "call_subject", <<"General Call">>)),
        caller_name |-> GetField(room_metadata, "caller_name", <<"LiveKit Caller">>),
        company_name |-> GetField(room_metadata, "company_name", <<"AI Call Service">>),
        agent_name |-> GetField(room_metadata, "agent_name", <<"AI Assistant">>),
        main_prompt |-> DecodedPrompt(room_metadata, <<>>, Lookup(room_metadata, "main_prompt"))]
  /\ UNCHANGED <<callVars, sdpVars, stmVars, twoVars, ulawVars, agentVars, svcVars, request,
                 room_metadata, entered>>

\* CallAgent.on_enter, lines 166-208
MetaOnEnter ==
  /\ room_metadata # <<>> /\ call_info # NoFields /\ entered = NoFields
  /\ entered' =
       [subject |-> GetField(room_metadata, "subject", <<>>),
        caller_name |-> GetField(room_metadata, "caller_name", <<>>),
        company_name |-> GetField(room_metadata, "company_name", <<"Rolevate">>),
        agent_name |-> GetField(room_metadata, "agent_name", <<"Ash">>),
        main_prompt |-> DecodedPrompt(room_metadata, <<>>, Lookup(room_metadata, "main_prompt"))]
  /\ UNCHANGED <<callVars, sdpVars, stmVars, twoVars, ulawVars, agentVars, svcVars, request,
                 room_metadata, call_info>>

InitMeta ==
  /\ Fresh /\ impl = RtpClient /\ series = FALSE /\ SdpIdle /\ StmIdle /\ TwoIdle
  /\ UlawIdle /\ AgentIdle /\ SvcIdle
  /\ request \in [subject : Texts, caller_name : Texts, company_name : {<<"a">>},
                   agent_name : {<<"a">>, <<"Ash">>}, main_prompt : Prompts]
  /\ room_metadata = <<>>
  /\ entered = NoFields
  /\ call_info = NoFields

NextMeta ==
  \/ MetaCreateRoom
  \/ MetaCreateRecord
  \/ MetaOnEnter

SpecMeta == InitMeta /\ [][NextMeta]_vars

-----------------------------------------------------------------------------
(* The call service of main.py: POST /make-call, PUT /calls/{call_id}/update
   and the background task update_call_statuses, on one request and its record *)

\* phone numbers, as the sequences of their characters
Phones ==
  { <<>>,
    <<"0", "7", "9", "6", "0", "2", "6", "6", "5", "9">>,
    <<"+", "1", " ", "(", "5", "5", "5", ")", " ", "1", "2", "3", "-", "4">>,
    <<"1", "2", "3", "4", "5">>,
    <<"0", "7", "9", "6", "0", "a", "6", "6", "5", "9">>,
    <<"+", "+", "+", "+", "+", "+", "+">> }

Digits == {"0", "1", "2", "3", "4", "5", "6", "7", "8", "9"}

\* s.replace(c, "") for every c of a set of characters
Without(t, cs) == SelectSeq(t, LAMBDA c : c \notin cs)

\* validate_phone_number, call_service.py lines 121-130
validate_phone_number(number) ==
  LET cleaned_number == Without(number, {" ", "-", "(", ")"})
      digits == Without(cleaned_number, {"+"})
  IN /\ number # <<>>
     /\ Len(cleaned_number) >= 7
     /\ digits # <<>>
     /\ \A i \in 1..Len(digits) : digits[i] \in Digits

\* mutant: the record of a call is "connecting" whatever make_sip_call returned
StatusAfterCall_Connecting(success) == "connecting"

\* main.py lines 309-325: the status make_call writes after make_sip_call
StatusAfterCall(success) == IF success THEN "connecting" ELSE "failed"

\* set the status of a record
WithStatus(rec, status) == [rec EXCEPT !.status = status]

\* main.py lines 273-296: the number is validated; a rejected number is
\* answered with 400, for an accepted one the record is added and committed
MakeCallBegin ==
  /\ rpc = "Idle"
  /\ \E number \in Phones :
       /\ phone_number' = number
       /\ IF validate_phone_number(number)
          THEN /\ db_record' = [status |-> "initiated", created_at |-> now,
                                started_at |-> NoTime, ended_at |-> NoTime]
               /\ since' = now
               /\ rpc' = "Calling"
               /\ http' = http
          ELSE /\ http' = "400"
               /\ rpc' = "Done"
               /\ UNCHANGED <<db_record, since>>
  /\ UNCHANGED <<callVars, sdpVars, stmVars, twoVars, ulawVars, agentVars, metaVars, now, sip>>

\* main.py lines 298-326: make_sip_call returns; on success the record
\* becomes "connecting" with started_at and the response is 200, else the
\* record becomes "failed" and the response is 500
MakeCallEnd ==
  /\ rpc = "Calling"
  /\ \E success \in BOOLEAN :
       /\ sip' = IF success THEN "initiated" ELSE "failed"
       /\ db_record' = [WithStatus(db_record, StatusAfterCall(success)) EXCEPT
                          !.started_at = IF success THEN now ELSE @]
       /\ http' = IF success THEN "200" ELSE "500"
  /\ since' = now
  /\ rpc' = "Done"
  /\ UNCHANGED <<callVars, sdpVars, stmVars, twoVars, ulawVars, agentVars, metaVars, now,
                 phone_number>>

\* the statuses a client sends to PUT /calls/{call_id}/update
PutStatuses == {"connecting", "initiated", "connected", "completed"}

\* main.py lines 433-477: update_call_status with a status
PutStatus ==
  /\ db_record # NoCall
  /\ \E status \in PutStatuses :
       /\ status # db_record.status
       /\ db_record' = [WithStatus(db_record, status) EXCEPT
                          !.ended_at = IF status = "completed" THEN now ELSE @]
  /\ since' = now
  /\ UNCHANGED <<callVars, sdpVars, stmVars, twoVars, ulawVars, agentVars, metaVars, now, rpc,
                 phone_number, http, sip>>

\* main.py lines 176-181: status == "connecting" and started_at <
\* utcnow() - 5 minutes; a NULL started_at compares with nothing
StaleCall(rec, t) ==
  rec.status = "connecting" /\ rec.started_at # NoTime
    /\ rec.started_at < t - ConnectingMinutes

\* main.py lines 188-193: status == "initiated" and created_at <
\* utcnow() - 2 minutes
OldInitiated(rec, t) ==
  rec.status = "initiated" /\ rec.created_at # NoTime
    /\ rec.created_at < t - InitiatedMinutes

\* main.py lines 171-206: update_call_statuses, run by run_background_tasks
\* in every cycle
UpdateCallStatuses ==
  /\ rpc # "Off"
  /\ db_record' =
       IF StaleCall(db_record, now)
       THEN [WithStatus(db_record, "timeout") EXCEPT !.ended_at = now]
       ELSE IF OldInitiated(db_record, now) THEN WithStatus(db_record, "failed")
       ELSE db_record
  /\ since' = IF db_record' # db_record THEN now ELSE since
  /\ UNCHANGED <<callVars, sdpVars, stmVars, twoVars, ulawVars, agentVars, metaVars, now, rpc,
                 phone_number, http, sip>>

\* a minute passes
SvcTick ==
  /\ rpc # "Off"
  /\ now < MaxTime
  /\ now' = now + 1
  /\ UNCHANGED <<callVars, sdpVars, stmVars, twoVars, ulawVars, agentVars, metaVars, rpc,
                 phone_number, http, sip, db_record, since>>

InitSvc ==
  /\ Fresh /\ impl = RtpClient /\ series = FALSE /\ SdpIdle /\ StmIdle /\ TwoIdle
  /\ UlawIdle /\ AgentIdle /\ MetaIdle
  /\ now = 0
  /\ rpc = "Idle"
  /\ phone_number = <<>>
  /\ http = "none"
  /\ sip = "none"
  /\ db_record = NoCall
  /\ since = NoTime

NextSvc ==
  \/ MakeCallBegin
  \/ MakeCallEnd
  \/ PutStatus
  \/ UpdateCallStatuses
  \/ SvcTick

SpecSvc == InitSvc /\ [][NextSvc]_vars

\* the same with a task runner that keeps running and a clock that goes on
SpecSvcFair ==
  InitSvc /\ [][NextSvc]_vars /\ WF_vars(UpdateCallStatuses) /\ WF_vars(SvcTick)

-----------------------------------------------------------------------------
(* Properties *)

Invites == {i \in 1..Len(sent) : sent[i].method = "INVITE"}
AuthInvites == {i \in Invites : sent[i].auth.present}
Acks == {i \in 1..Len(sent) : sent[i].method = "ACK"}
Received(status) == \E i \in 1..Len(rcvd) : rcvd[i] = status
Waiting == {"AwaitFirst", "AwaitAnswer", "AwaitFinal", "AwaitProgress"}
Failure == {"False", "None"}

\* C1: no RTP packet is sent, and the RTP streamer is not started, before a
\* 200 OK has been received: whenever the streamer exists or a packet has
\* been sent, a 200 OK is among the responses received in this call.
C1_NoRtpBeforeAnswered ==
  (rtp # <<>> \/ streamer # NoStreamer \/ streamRes # "none" \/ pc = "Streaming")
    => Received(S200)

\* a call that was challenged, rang, was answered and streamed its audio
C1_Witness ==
  /\ impl = RtpClient
  /\ rcvd = <<S401, S180, S200>>
  /\ Len(rtp) = 2

\* C2: one call sends at most one INVITE that carries an Authorization header
\* and at most two INVITEs in all, whatever the server answers.
C2_AtMostOneAuthInvite ==
  /\ Cardinality(AuthInvites) <= 1
  /\ Cardinality(Invites) <= 2

\* the server repeated its challenge twice after the authenticated INVITE
C2_Witness ==
  /\ Cardinality(AuthInvites) = 1
  /\ Len(rcvd) = 3
  /\ rcvd[2] \in Challenge
  /\ rcvd[3] \in Challenge

\* C3: a second 401 or 407 received after the authenticated INVITE ends the
\* call with a failure outcome: once it is received the call has returned.
C3_SecondChallengeEndsCall ==
  (AuthInvites # {} /\ Len(rcvd) >= 2 /\ last \in Challenge)
    => (pc = "Done" /\ outcome \in Failure)

\* C4: when the response to the first INVITE of make_voice_call_with_rtp is a
\* 401 with a WWW-Authenticate challenge or a 407 with a Proxy-Authenticate
\* challenge, a second INVITE has been sent that carries an Authorization
\* header with the realm and nonce of that challenge and a CSeq one higher
\* than the first INVITE.
C4_ChallengeRetried ==
  ( /\ impl = RtpClient
    /\ \/ response_text.status = S401 /\ response_text.hdr.name = "WWW-Authenticate"
       \/ response_text.status = S407 /\ response_text.hdr.name = "Proxy-Authenticate"
    /\ response_text.hdr.value.realm # Absent
    /\ response_text.hdr.value.nonce # Absent )
    => /\ Len(sent) >= 2
       /\ sent[2].method = "INVITE"
       /\ sent[2].auth.present
       /\ sent[2].auth.realm = response_text.hdr.value.realm
       /\ sent[2].auth.nonce = response_text.hdr.value.nonce
       /\ sent[2].cseq = sent[1].cseq + 1

\* C5: a step that receives a provisional response (100, 180, 183) returns no
\* outcome, sends no request and leaves the call waiting for the next response.
C5_ProvisionalKeepsWaiting ==
  [][ (Len(rcvd') = Len(rcvd) + 1 /\ last' \in Provisional)
        => (pc' \in Waiting /\ outcome' = "pending" /\ sent' = sent) ]_vars

\* the last response make_voice_call_with_rtp received, when it is a 200 OK
Last200 ==
  IF Len(rcvd) = 1 THEN response_text
  ELSE [status |-> S200, hdr |-> NoHeader, body |-> answer, decodable |-> TRUE]

\* C6: once make_voice_call_with_rtp has received a 200 OK whose SDP yields a
\* remote endpoint, exactly one ACK has been sent, with Content-Length 0 and
\* no body; and no RTP packet is sent unless the ACK has been sent.
C6_OneAckBeforeRtp ==
  impl = RtpClient =>
    /\ (last = S200 /\ Usable(parse_sdp_response(Last200)))
         => /\ Cardinality(Acks) = 1
            /\ \A i \in Acks : sent[i].clen = "0" /\ sent[i].body = ""
    /\ rtp # <<>> => Acks # {}

ConnectionLines(b) == {i \in 1..Len(b.lines) : IsConnectionLine(b.lines[i])}
AudioLines(b) == {i \in 1..Len(b.lines) : IsAudioLine(b.lines[i])}

\* C7: every RTP packet of a call is addressed to the IP of a connection line
\* and to the port of an audio media line of the 200 OK's SDP answer (to the
\* IP and the port, when the answer has one line of each), and a call that
\* sent RTP packets returns True (Connected).
C7_RtpTargetsAnswer ==
  /\ \A k \in 1..Len(rtp) :
       /\ \E i \in ConnectionLines(answer) : answer.lines[i][3] = rtp[k].ip
       /\ \E i \in AudioLines(answer) :
            /\ answer.lines[i][2] \in DOMAIN IntOf
            /\ IntOf[answer.lines[i][2]] = rtp[k].port
  /\ (pc = "Done" /\ rtp # <<>>) => outcome = "True"

\* the scenario c=IN IP4 10.0.0.5, m=audio 30000: both packets went there
C7_Witness ==
  /\ pc = "Done"
  /\ answer.lines = <<VLine, C1Line, M1Line>>
  /\ rtp = << [ip |-> "10.0.0.5", port |-> 30000], [ip |-> "10.0.0.5", port |-> 30000] >>
  /\ outcome = "True"

\* C8: a call of make_voice_call_with_rtp whose first response was a 200 OK
\* with a valid SDP answer has sent the ACK and returns True (Connected).
C8_UnchallengedAnswerConnects ==
  ( /\ impl = RtpClient
    /\ pc = "Done"
    /\ Len(rcvd) = 1
    /\ response_text.status = S200
    /\ Usable(parse_sdp_response(response_text)) )
    => (Acks # {} /\ outcome = "True")

\* C9: once a 486, 404, 603 or 408 has been received the call has returned,
\* with a failure outcome.
C9_RejectionEndsCall ==
  last \in Rejection => (pc = "Done" /\ outcome \in Failure)

NamedReasons ==
  {"Connected", "Busy", "NotFound", "Declined", "Timeout", "AuthFailed", "ProtocolError"}

C11_SilenceEndsInTimeout ==
  (impl = RtpClient /\ pc = "Done" /\ sent # <<>> /\ rcvd = <<>>)
    => /\ outcome = "False"
       /\ last = "timeout"
       /\ EndReason = "Timeout"
       /\ Len(sent) = 1
       /\ Cardinality(Invites) = 1
       /\ Acks = {}
       /\ rtp = <<>>
       /\ streamer = NoStreamer
       /\ streamRes = "none"

\* the INVITE was sent and the receive of line 396 timed out
C11_Witness ==
  /\ impl = RtpClient
  /\ pc = "Done"
  /\ Len(sent) = 1
  /\ rcvd = <<>>
  /\ last = "timeout"
  /\ exit = "L500"

\* C12: make_voice_call_with_rtp eventually returns an outcome, whatever the
\* server does: stays silent, sends unrecognised responses, repeats its
\* challenge or sends provisional responses without end.
C12_CallReturns == <>(pc = "Done" /\ outcome # "pending")

\* provisional responses kept coming until the 45 seconds of the loop were over
C12_Witness ==
  /\ pc = "Done"
  /\ exit = "L494"
  /\ Len(rcvd) = ResponseLimit
  /\ last \in Provisional
  /\ elapsed >= MaxWaitTime

\* C13: once make_voice_call_with_rtp has received a 200 OK whose body has no
\* m=audio line, or no connection line, the call has returned False; no ACK
\* and no RTP packet was sent, no streamer was created and nothing was sent
\* again: the requests of the call are its one or two INVITEs.
C13_NoMediaFailsCall ==
  ( /\ impl = RtpClient
    /\ last = S200
    /\ (AudioLines(Last200.body) = {} \/ ConnectionLines(Last200.body) = {}) )
    => /\ pc = "Done"
       /\ outcome = "False"
       /\ Acks = {}
       /\ rtp = <<>>
       /\ streamer = NoStreamer
       /\ Invites = 1..Len(sent)
       /\ Len(sent) <= 2

\* the answer to the authenticated INVITE had a connection line and no m=audio
C13_Witness ==
  /\ impl = RtpClient
  /\ pc = "Done"
  /\ rcvd = <<S401, S180, S200>>
  /\ answer.lines = <<VLine, C1Line>>
  /\ exit = "L472"

\* dotted-quad IPv4 addresses among the addresses of the connection lines
IPv4Addresses == {"10.0.0.5", "10.0.0.9"}

\* a body after a blank line, with a connection line and an audio line, whose
\* connection lines all carry an IPv4 address and audio lines a decimal port
WellFormedAnswer(b) ==
  /\ b.sep
  /\ ConnectionLines(b) # {}
  /\ AudioLines(b) # {}
  /\ \A i \in ConnectionLines(b) : b.lines[i][3] \in IPv4Addresses
  /\ \A i \in AudioLines(b) : b.lines[i][2] \in DOMAIN IntOf

\* C15: when the 200 OK that answers the authenticated INVITE has a body
\* that lacks the connection line or the audio line, or in which one of them
\* is malformed (port no number, address no IPv4 address, no blank line),
\* parse_sdp_response yields no usable endpoint and the call has returned
\* False without an ACK.
C15_MalformedYieldsNoEndpoint ==
  ( /\ impl = RtpClient
    /\ Len(rcvd) > 1
    /\ last = S200
    /\ ~WellFormedAnswer(answer) )
    => /\ ~Usable(parse_sdp_response(Last200))
       /\ pc = "Done"
       /\ outcome = "False"
       /\ Acks = {}

\* C14: the SDP body create_sdp_body produces for a local IP and an RTP port,
\* placed in an INVITE by create_invite_with_auth_and_sdp, is parsed by
\* parse_sdp_response back to that IP and that port.
C14_SdpRoundTrip ==
  parsed # Unparsed => parsed = [ip |-> local_ip, port |-> rtp_port]

\* pairs of consecutive packets of the stream
Pairs == 1..(Len(packets) - 1)

\* C16: in one RTP stream the sequence number of each packet is that of the
\* packet before plus 1 modulo 65536, whatever the starting value; the
\* counter never leaves 0..65535, so that packing it never fails; and every
\* packet carries the SSRC the streamer was created with.
C16_SequenceWraps ==
  /\ \A k \in Pairs : packets[k + 1].seq = (packets[k].seq + 1) % 65536
  /\ \A k \in 1..Len(packets) : packets[k].ssrc = ssrc /\ packets[k].seq \in 0..65535
  /\ spc # "Idle" => sequence_number \in 0..65535
  /\ error # "struct.error: sequence_number"

\* a stream in which 65535 was followed by 0
C16_Witness ==
  \E k \in Pairs : packets[k].seq = 65535 /\ packets[k + 1].seq = 0

\* x modulo 2^32
Mod32(x) == U32(x.hi % 65536, x.lo)

\* C17: in one RTP stream the timestamp of each packet is that of the packet
\* before plus 160 modulo 2^32, and create_rtp_packet never fails on the
\* timestamp, whatever its starting value and the number of packets.
C17_TimestampWraps ==
  /\ \A k \in Pairs : packets[k + 1].ts = Mod32(Plus(packets[k].ts, 160))
  /\ error # "struct.error: timestamp"

\* ceil(n / 160)
CeilChunks(n) == (n + 159) \div 160

\* socket, file and codec errors, which are the environment's
External == {"socket", "bind", "audio", "sendto"}

\* 12-byte header with version 2, no padding, no extension, CSRC count 0,
\* marker 0 and payload type 0; 160 payload bytes
WellFramed(pkt) ==
  /\ pkt.header_len = 12
  /\ pkt.b0 \div 64 = 2
  /\ (pkt.b0 \div 32) % 2 = 0
  /\ (pkt.b0 \div 16) % 2 = 0
  /\ pkt.b0 % 16 = 0
  /\ pkt.b1 \div 128 = 0
  /\ pkt.b1 % 128 = 0
  /\ PayloadLen(pkt.payload) = 160
  /\ pkt.payload.fill = "0x7f"

\* every packet is well framed and only the last one is padded
FramedAndPadded ==
  /\ \A k \in 1..Len(packets) : WellFramed(packets[k])
  /\ \A k \in Pairs : packets[k].payload.pad = 0
  /\ \A k \in 1..Len(packets) :
       packets[k].payload.pad > 0 => (k = CeilChunks(ulaw_len) /\ ulaw_len % 160 # 0)

\* C18: a run of stream_audio_file that no socket, file or codec error cut
\* short has produced exactly ceil(n / 160) packets for its buffer of n
\* bytes (none for an empty buffer), each with the 12-byte header and 160
\* payload bytes, only the last one padded, with the silence value.
C18_PacketCountAndLayout ==
  /\ FramedAndPadded
  /\ (spc = "Returned" /\ error \notin External) => Len(packets) = CeilChunks(ulaw_len)

\* C19: the packets of a stream carry the chunks of the buffer in buffer
\* order, each chunk once: the k-th packet carries the chunk at 160 * (k - 1).
C19_ChunksInOrderOnce ==
  /\ \A k \in 1..Len(packets) : packets[k].payload.from = 160 * (k - 1)
  /\ \A j, k \in 1..Len(packets) :
       j < k => packets[j].payload.from < packets[k].payload.from
  /\ Len(packets) <= CeilChunks(ulaw_len)

\* three chunks were streamed, the last one padded
C19_Witness ==
  /\ result = "True"
  /\ ulaw_len = 321
  /\ Len(packets) = 3
  /\ packets[3].payload = [from |-> 320, data |-> 1, pad |-> 159, fill |-> "0x7f"]

\* C20: stream_audio_file has returned exactly when it has a result, True or
\* False; True exactly when nothing raised and every packet of the buffer
\* was handed to the socket; False when socket, bind or sendto raised; once
\* something raised it has returned, so no packet follows; and when it has
\* returned the socket, if it was created, is closed.
C20_OneResultSocketClosed ==
  /\ spc = "Returned" <=> result # "none"
  /\ result \in {"none", "True", "False"}
  /\ result = "True" <=>
       (spc = "Returned" /\ error = "none" /\ Len(packets) = CeilChunks(ulaw_len))
  /\ error \in {"socket", "bind", "sendto"} => result = "False"
  /\ error # "none" => spc = "Returned"
  /\ spc = "Returned" => rtp_socket \in {"None", "closed"}
  /\ (spc = "Returned" /\ error # "socket") => rtp_socket = "closed"

\* sendto raised on the second packet: one packet sent, False, socket closed
C20_Witness ==
  /\ spc = "Returned"
  /\ error = "sendto"
  /\ Len(packets) = 1
  /\ result = "False"
  /\ rtp_socket = "closed"

\* C21: a call of make_voice_call_with_rtp that was answered and acknowledged
\* and whose streamer returned False has returned a value that is neither
\* True, which a fully streamed call returns, nor False, which the calls
\* that never connected return.
C21_AudioFailureDistinct ==
  (impl = RtpClient /\ pc = "Done" /\ Acks # {} /\ streamRes = "False")
    => outcome \notin {"True", "False"}

\* C25: in every INVITE with an Authorization header, the response is
\* MD5(HA1:nonce:HA2) and the header has no qop, nc, cnonce when the challenge
\* had no qop, and MD5(HA1:nonce:nc:cnonce:qop:HA2) with nc = "00000001" and
\* the challenge's qop, that nc and that cnonce in the header when it had one;
\* HA1 and HA2 are over the realm and uri of the header, the nonce is the
\* header's, and the uri is the request URI of the INVITE.
C25_DigestResponse ==
  \A i \in AuthInvites :
    LET a == sent[i].auth
        c == response_text.hdr.value
        ha1 == MD5(<<Username, a.realm, Password>>)
        ha2 == MD5(<<"INVITE", a.uri>>)
    IN /\ a.username = Username
       /\ a.uri = sent[i].uri
       /\ IF c.qop \in {Absent, ""}
          THEN /\ a.response = MD5(<<ha1, a.nonce, ha2>>)
               /\ a.qop = Absent /\ a.nc = Absent /\ a.cnonce = Absent
          ELSE /\ a.qop = c.qop
               /\ a.nc = "00000001"
               /\ a.cnonce \in CNonces
               /\ a.response = MD5(<<ha1, a.nonce, a.nc, a.cnonce, a.qop, ha2>>)

\* an INVITE answering a challenge with qop="auth" was sent
C25_Witness ==
  /\ AuthInvites = {2}
  /\ response_text.hdr.value.qop = "auth"
  /\ sent[2].auth.qop = "auth"
  /\ sent[2].auth.cnonce = "999999"

\* C27: every step in which a call returns leaves the signaling socket
\* closed and no streamer running, and once a call has returned no step
\* sends a SIP request or an RTP packet for it or changes its outcome.
C27_ReturnedIsTerminal ==
  [][ /\ pc' = "Done" => (~sockOpen' /\ streamRes' # "running")
      /\ pc = "Done" => (pc' = "Done" /\ sent' = sent /\ rtp' = rtp /\ outcome' = outcome)
    ]_vars

\* a call that streamed its audio has returned; its socket is closed
C27_Witness ==
  /\ pc = "Done"
  /\ exit = "L469"
  /\ Len(rtp) = 2
  /\ ~sockOpen

\* C28: every request of a call carries the Call-ID and the From tag of
\* the client object, the same in the initial INVITE, the authenticated
\* INVITE and the ACK; the authenticated INVITE carries the branch that
\* was generated for it, and the ACK that branch too.
C28_DialogIdsStable ==
  /\ \A i \in 1..Len(sent) :
       /\ sent[i].call_id = call_id /\ sent[i].call_id = sent[1].call_id
       /\ sent[i].tag = tag /\ sent[i].tag = sent[1].tag
  /\ Len(sent) = 1 => sent[1].branch = branch
  /\ Len(sent) >= 2 => (sent[2].method = "INVITE" /\ sent[2].branch = branch)
  /\ \A i \in Acks : sent[i].branch = branch

\* INVITE, INVITE with a new branch, ACK
C28_Witness ==
  /\ Len(sent) = 3
  /\ sent[3].method = "ACK"
  /\ sent[2].branch # sent[1].branch
  /\ sent[3].tag = sent[1].tag

\* the first response of the call is a challenge that satisfies what
FirstChallenge(what(_)) ==
  /\ response_text.status \in Challenge
  /\ what(response_text.hdr)

UnsupportedAlgorithm(hdr) ==
  hdr.name # "none" /\ hdr.value.algorithm \notin {Absent, "MD5"}

\* C23: when the challenge names an algorithm other than MD5 the call has
\* ended in failure and no INVITE with an Authorization header was sent.
C23_UnsupportedAlgorithmFails ==
  FirstChallenge(UnsupportedAlgorithm)
    => (AuthInvites = {} /\ pc = "Done" /\ outcome \in Failure)

Unparsable(hdr) ==
  hdr.name = "none" \/ hdr.value.realm = Absent \/ hdr.value.nonce = Absent

\* C24: when a 401 or 407 carries no challenge header, or one without realm
\* or without nonce, the call has ended in failure having sent its first
\* INVITE only; and no INVITE carries an Authorization header whose realm or
\* nonce is empty.
C24_UnparsableChallengeFails ==
  /\ FirstChallenge(Unparsable)
       => (Len(sent) = 1 /\ pc = "Done" /\ outcome \in Failure)
  /\ \A i \in AuthInvites : sent[i].auth.realm # "" /\ sent[i].auth.nonce # ""

\* C22: once a BYE has arrived while the streamer was sending, the streamer
\* sends at most the packet it was at and none after it, and the signaling
\* socket is not closed while the streamer still runs.
C22_ByeStopsStreamer ==
  bye # <<>> =>
    /\ Len(rtp) <= bye[1] + 1
    /\ ~sockOpen => streamRes # "running"

\* C26: the first INVITE of a call, the first call through a client object
\* or a later one, carries no Authorization header; a call sends at most one
\* INVITE with such a header, as its second request, after a challenge was
\* the first response of this same call, and the header's realm and nonce are
\* the realm and nonce of that challenge.
C26_NonceOfThisChallenge ==
  /\ sent # <<>> => ~sent[1].auth.present
  /\ Cardinality(AuthInvites) <= 1
  /\ \A i \in AuthInvites :
       /\ i = 2
       /\ rcvd # <<>> /\ rcvd[1] \in Challenge
       /\ response_text.status = rcvd[1]
       /\ sent[i].auth.realm = Get(response_text.hdr.value, "realm")
       /\ sent[i].auth.nonce = Get(response_text.hdr.value, "nonce")

\* the second call through a client object answers a challenge whose nonce
\* is not the nonce the previous call answered
C26_Witness ==
  /\ before.nonce = "abc123"
  /\ AuthInvites = {2}
  /\ response_text.hdr.value.nonce = "def456"
  /\ sent[2].auth.nonce = "def456"

\* C29: a call placed through a client object that already placed one sends
\* its first INVITE with a Call-ID and From tag that are not both those of the
\* previous call, and with the initial CSeq.
C29_FreshIdsPerAttempt ==
  (before # NoBefore /\ sent # <<>>) =>
    /\ <<sent[1].call_id, sent[1].tag>> # <<before.call_id, before.tag>>
    /\ sent[1].cseq = InitialCSeq

\* C30: of two calls that run at the same time, each streams the speech that
\* was generated for it: what the streamer of a call loaded is neither the
\* speech of the other call nor a file that is gone.
C30_OwnAudioStreamed ==
  \A c \in Calls : loaded[c] \in {"none", c}

\* the largest of the times one iteration can take before its sendto
MaxWork == CHOOSE w \in WorkTimes : \A v \in WorkTimes : v <= w

\* C31: the k-th packet (k from 0) is handed to sendto no later than one
\* iteration's work after 20 ms times k from the start of the loop, and not
\* before it: the work of the earlier iterations is not added to its delay.
C31_NoDrift ==
  \A k \in 1..Len(send_times) :
    /\ send_times[k] >= PacketTime * (k - 1)
    /\ send_times[k] <= PacketTime * (k - 1) + MaxWork

\* the G.711 mu-law decoder: the byte is complemented, its top bit is the
\* sign (set: negative), then three bits of segment and four of mantissa
ulaw2lin(b) ==
  LET u == 255 - b
      e == (u \div 16) % 8
      t == ((u % 16) * 8 + 132) * (2^e)
  IN IF u >= 128 THEN 132 - t ELSE t - 132

\* the step of the segment the byte lies in; beyond the clip level, 32635,
\* the distance to the largest decoded value
QuantizationError(b, sample) ==
  LET e == ((255 - b) \div 16) % 8
      m == IF sample >= 0 THEN sample ELSE -sample
  IN IF m > 32635 THEN m - 32124 ELSE 2^(e + 3)

Distance(a, b) == IF a >= b THEN a - b ELSE b - a

\* C32: a sample that convert_to_ulaw encoded, on either path, became one
\* byte that the G.711 decoder turns into a value of the same sign as the
\* sample and within the quantization error of it.
C32_UlawRoundTrip ==
  ulaw_byte # <<>> =>
    LET b == ulaw_byte[1]
        d == ulaw2lin(b)
    IN /\ b \in 0..255
       /\ pcm > 0 => d >= 0
       /\ pcm < 0 => d <= 0
       /\ Distance(d, pcm) <= QuantizationError(b, pcm)

\* the same, on the path through audioop alone
C32_AudioopRoundTrip ==
  upath = "audioop" => C32_UlawRoundTrip

Exceptions == {"UnboundLocalError"}

\* C33: a call that has ended has returned a value to its caller, and a
\* value of failure when an error ended it: no exception left the call.
C33_NoExceptionEscapes ==
  pc = "Done" =>
    /\ outcome \notin Exceptions
    /\ last \in {"no socket", "socket error", "no audio", "timeout", "undecodable"}
         => outcome \in Failure

\* the INVITE sent last before the request i
LastInviteBefore(i) ==
  CHOOSE j \in Invites : j < i /\ \A k \in Invites : k < i => k <= j

\* C34: an ACK follows an INVITE and carries the CSeq number, the Call-ID,
\* the From tag and the request URI of the INVITE sent last before it; that
\* number is 1 when that INVITE is the first request of the call and 2 when
\* it is the authenticated retry.
C34_AckMatchesInvite ==
  \A i \in Acks :
    /\ \E j \in Invites : j < i
    /\ LET inv == sent[LastInviteBefore(i)]
       IN /\ sent[i].cseq = inv.cseq
          /\ sent[i].call_id = inv.call_id
          /\ sent[i].tag = inv.tag
          /\ sent[i].uri = inv.uri
          /\ inv.cseq = IF LastInviteBefore(i) = 1 THEN InitialCSeq ELSE InitialCSeq + 1

\* the ACK of a call answered after the authenticated retry carries CSeq 2
C34_Witness ==
  /\ Acks = {3}
  /\ sent[3].cseq = 2
  /\ sent[2].cseq = 2
  /\ sent[2].auth.present
  /\ Received(S200)

\* C35: make_authenticated_call eventually returns, whatever the server
\* sends after the authenticated INVITE.
C35_AuthCallReturns == <>(pc = "Done")

\* C36: when agent_entry_point has finished, by returning or by raising,
\* cleanup() was run for every CallAgent it created, and it created at most
\* three.
C36_CleanupAlwaysRuns ==
  epc \in {"Finished", "Raised"} =>
    /\ \A i \in Instances : i <= agent_instance => i \in cleaned
    /\ agent_instance <= 3

\* C38: a record whose status is "completed" or "failed" is left as it is,
\* status and ended_at, by every step of the agents and of the entry point.
C38_FinalStatusAbsorbing ==
  [][ \A i \in Instances :
        records[i].status \in {"completed", "failed"} => records'[i] = records[i] ]_vars

\* C37: the subject, caller_name, company_name, agent_name and main_prompt
\* that on_enter and _create_call_record extract from the metadata are those
\* given to make_sip_call.
C37_ContextSurvives ==
  /\ entered # NoFields => entered = request
  /\ call_info # NoFields => call_info = request

\* the same for the main_prompt alone, which is base64-encoded on the way
C37_PromptSurvives ==
  /\ entered # NoFields => entered.main_prompt = request.main_prompt
  /\ call_info # NoFields => call_info.main_prompt = request.main_prompt

C39_ConnectingForEver ==
  /\ db_record.status = "connecting"
  /\ db_record.started_at = NoTime
  /\ now - since > ConnectingMinutes

\* a call left "connecting" by make_call is not "connecting" forever
C39_MadeCallsTimeOut ==
  (db_record.status = "connecting" /\ db_record.started_at # NoTime
     /\ now + ConnectingMinutes < MaxTime)
    ~> (db_record.status # "connecting")

====
